---- MODULE Spec2Model ----
(***************************************************************************)
(* A model of the flashcard maker's backend:                               *)
(*   backend/elevenlabs_tts.py      _hash, synthesize_text,                *)
(*                                  voices_for_language_strict,            *)
(*                                  group_voices_by_language               *)
(*   backend/simple_flashcards.py   build_simple_apkg                      *)
(*   backend/sentence_analyzer.py   fr_tokens, band_from_zipf,             *)
(*                                  analyze_sentence                       *)
(*                                                                         *)
(* Text is a sequence of one-character strings.  Floating point settings   *)
(* (speaking_rate, stability, similarity_boost, style) are integers in     *)
(* tenths: 7 stands for 0.7, 12 for 1.2.  Word frequency scores are         *)
(* integers in ten-thousandths: 30000 stands for 3.0.                      *)
(***************************************************************************)
EXTENDS Integers, Sequences, FiniteSets, TLC

VARIABLES
    \* ---- the cache directory (out_dir) as a file system
    fs,          \* [names: path -> inode, inodes: inode -> content, next: fresh inode]
    \* ---- synthesize_text, one activation per process
    pc,          \* position of each process inside synthesize_text
    req,         \* arguments of the call in progress
    apiKey,      \* whether ELEVENLABS_API_KEY is set for the call in progress
    stream,      \* the iterator returned by text_to_speech.convert
    spos,        \* number of items of the stream already consumed
    handle,      \* inode behind the open file object f (0: none)
    foff,        \* write position of f, in chunks
    nconv,       \* provider calls made by the call in progress
    log,         \* per process, the calls that have ended
    streams,     \* every stream the provider has returned so far
    sent,        \* the arguments of every text_to_speech.convert call so far
    \* ---- two requests and the cache entries derived for them
    keyA, keyB,  \* the requests (keyB is NoReq until the second is derived)
    entA, entB,  \* their paths in out_dir
    \* ---- voices_for_language_strict
    directory,       \* what list_voices() returns
    language_label,  \* the argument
    matches,         \* the result
    vpc,
    envKey,          \* whether ELEVENLABS_API_KEY is set in the environment
    \* ---- build_simple_apkg
    bpc,                 \* position inside build_simple_apkg
    pairs,               \* the rows, each [A, B]
    voice_ids,           \* the caller's voice_ids (<<>>: None or empty)
    tts_language,
    resolved_voice_ids,
    idx,                 \* rows already turned into notes
    candidate_voices,    \* the shuffled candidates of the current row
    cpos,                \* candidates of the current row already tried
    audio_info,
    last_error,
    media_files,
    notes,               \* deck.notes
    tried,               \* attempts of the current row: [voice, outcome]
    rowlog,              \* the attempts of every finished row
    filter_error,        \* the exception the famous filter swallowed ("": none)
    raised,              \* the exception that left build_simple_apkg ("": none)
    \* ---- analyze_sentence and fr_tokens
    sentence,            \* the text given
    known_words,
    rare_threshold,
    useful_min,
    useful_max,
    WORD_FREQ_AVAILABLE, \* whether the import of wordfreq succeeded
    oracle,              \* what wordfreq answers for each normalised token
    spans,               \* the matches of WORD_RE.finditer: [start, end]
    toks,                \* the result of fr_tokens
    summary,             \* the result of analyze_sentence
    apc,
    \* ---- group_voices_by_language
    groups,              \* the result: the keys in insertion order, the voices of each
    gpc

synthVars == <<fs, pc, req, apiKey, stream, spos, handle, foff, nconv, log, streams, sent>>

keyVars == <<keyA, keyB, entA, entB>>

voiceVars == <<directory, language_label, matches, vpc, envKey>>

buildVars == <<bpc, pairs, voice_ids, tts_language, resolved_voice_ids, idx,
               candidate_voices, cpos, audio_info, last_error, media_files, notes,
               tried, rowlog, filter_error, raised>>

analyzerVars == <<sentence, known_words, rare_threshold, useful_min, useful_max,
                  WORD_FREQ_AVAILABLE, oracle, spans, toks, summary, apc>>

groupVars == <<groups, gpc>>

vars == <<synthVars, keyVars, voiceVars, buildVars, analyzerVars, groupVars>>

-----------------------------------------------------------------------------
(* Bounds *)

NumProcs == 2        \* callers of synthesize_text running concurrently
MaxVoices == 2       \* voices in the provider's directory
MaxPairs == 2        \* rows given to build_simple_apkg
MaxCalls == 2        \* sequential calls of one caller
ConcCalls == 1       \* calls of each concurrent caller
StreamLen == 2       \* items in one provider stream

(* Program constants, in tenths *)
ClampLo == 7
ClampHi == 12
DefaultStability == 7
DefaultSimilarity == 7
DefaultStyle == 0
DefaultRate == 10

-----------------------------------------------------------------------------
(* Strings *)

US == "US"           \* the separator character U+241F used by _hash

Digits == <<"0", "1", "2", "3", "4", "5", "6", "7", "8", "9">>

Min(a, b) == IF a < b THEN a ELSE b
Max(a, b) == IF a > b THEN a ELSE b

\* str(x) of a non-negative float x = n/10 with one decimal: "0.7", "1.0", "1.2"
FmtFloat(n) == <<Digits[(n \div 10) + 1], ".", Digits[(n % 10) + 1]>>

\* str(b) of a bool
FmtBool(b) == IF b THEN <<"T", "r", "u", "e">> ELSE <<"F", "a", "l", "s", "e">>

\* str.lower(), on the characters the model uses
LowerCh(c) ==
    CASE c = "F" -> "f"
      [] c = "R" -> "r"
      [] c = "Famous" -> "famous"
      [] c = "A" -> "a"
      [] c = "P" -> "p"
      [] OTHER -> c

Lower(s) == [i \in 1..Len(s) |-> LowerCh(s[i])]

\* str.strip()
RECURSIVE LStrip(_)
LStrip(s) == IF s # <<>> /\ Head(s) = " " THEN LStrip(Tail(s)) ELSE s

RECURSIVE RStrip(_)
RStrip(s) == IF s # <<>> /\ s[Len(s)] = " " THEN RStrip(SubSeq(s, 1, Len(s) - 1)) ELSE s

Strip(s) == RStrip(LStrip(s))

\* needle in hay
Contains(hay, needle) ==
    \E i \in 0..(Len(hay) - Len(needle)) : SubSeq(hay, i + 1, i + Len(needle)) = needle

\* s.startswith(prefix)
StartsWith(s, prefix) ==
    Len(prefix) <= Len(s) /\ SubSeq(s, 1, Len(prefix)) = prefix

Range(s) == {s[i] : i \in DOMAIN s}

-----------------------------------------------------------------------------
(* _hash and the derived file names *)

\* the key without the speaking rate
CanonicalNoRate(text, voice_id, model_id, speaking_rate, stability, similarity_boost, style, use_speaker_boost, output_format) ==
    text \o <<US>> \o voice_id \o <<US>> \o model_id \o <<US>>
         \o FmtFloat(stability) \o <<US>>
         \o FmtFloat(similarity_boost) \o <<US>> \o FmtFloat(style) \o <<US>>
         \o FmtBool(use_speaker_boost) \o <<US>> \o output_format

\* the f-string of _hash: the nine fields joined by U+241F
Canonical(text, voice_id, model_id, speaking_rate, stability, similarity_boost, style, use_speaker_boost, output_format) ==
    text \o <<US>> \o voice_id \o <<US>> \o model_id \o <<US>>
         \o FmtFloat(speaking_rate) \o <<US>> \o FmtFloat(stability) \o <<US>>
         \o FmtFloat(similarity_boost) \o <<US>> \o FmtFloat(style) \o <<US>>
         \o FmtBool(use_speaker_boost) \o <<US>> \o output_format

\* md5(...).hexdigest()[:12], taken to be injective on the canonical string
_hash(text, voice_id, model_id, speaking_rate, stability, similarity_boost, style, use_speaker_boost, output_format) ==
    Canonical(text, voice_id, model_id, speaking_rate, stability, similarity_boost,
              style, use_speaker_boost, output_format)

\* max and min exchanged
ClampedSpeedSwapped(speaking_rate) == Min(ClampLo, Max(ClampHi, speaking_rate))

\* clamped_speed = max(0.7, min(1.2, speaking_rate))
ClampedSpeed(speaking_rate) == Max(ClampLo, Min(ClampHi, speaking_rate))

\* base = _hash(text, voice_id, model_id, clamped_speed, ...)
Base(r) ==
    _hash(r.text, r.voice_id, r.model_id, ClampedSpeed(r.speaking_rate), r.stability,
          r.similarity_boost, r.style, r.use_speaker_boost, r.output_format)

\* fname = f"{base}.mp3"
Fname(r) == [base |-> Base(r), ext |-> "mp3"]

\* fpath = os.path.join(out_dir, fname); out_dir is the one modelled directory
Fpath(r) == Fname(r)

\* writing under the final name itself
TmpPathInPlace(fpath) == fpath

\* tmp_path = fpath + ".tmp"
TmpPath(fpath) == [base |-> fpath.base, ext |-> "mp3.tmp"]

-----------------------------------------------------------------------------
(* The file system: names bound to inodes, open files keep their inode *)

NoFile == 0

EmptyFs == [names |-> <<>>, inodes |-> <<>>, next |-> 1]

Exists(f, path) == path \in DOMAIN f.names

Content(f, path) == f.inodes[f.names[path]]

\* inodes with neither a name nor an open file object are gone
Collect(f, open) ==
    LET live == {f.names[n] : n \in DOMAIN f.names} \cup (open \ {NoFile})
    IN  [f EXCEPT !.inodes = [i \in (DOMAIN f.inodes) \cap live |-> f.inodes[i]]]

\* open(path, "wb"): create, or truncate the existing file; the inode opened
OpenedInode(f, path) == IF Exists(f, path) THEN f.names[path] ELSE f.next

FsOpenWB(f, path) ==
    IF Exists(f, path)
    THEN [f EXCEPT !.inodes[f.names[path]] = <<>>]
    ELSE [names  |-> (path :> f.next) @@ f.names,
          inodes |-> (f.next :> <<>>) @@ f.inodes,
          next   |-> f.next + 1]

\* f.write(chunk) at the file object's own position; a gap left by another
\* writer's truncation reads as zero bytes
Hole == <<0, 0>>

FsWrite(f, ino, off, chunk) ==
    LET old == f.inodes[ino]
        len == Max(Len(old), off + 1)
    IN  [f EXCEPT !.inodes[ino] =
            [k \in 1..len |-> IF k = off + 1 THEN chunk
                              ELSE IF k <= Len(old) THEN old[k] ELSE Hole]]

\* a directory that keeps the newest artifact only
FsReplaceEvicting(f, src, dst) == [f EXCEPT !.names = (dst :> f.names[src])]

\* os.replace(src, dst), src existing
FsReplace(f, src, dst) ==
    [f EXCEPT !.names = [n \in ((DOMAIN f.names) \ {src}) \cup {dst} |->
                            IF n = dst THEN f.names[src] ELSE f.names[n]]]

\* the variant that trusts the cache at the default rate only
CacheHitDefaultRateOnly(f, r) == Exists(f, Fpath(r)) /\ r.speaking_rate = DefaultRate

\* line 259: os.path.exists(fpath)
CacheHit(f, r) == Exists(f, Fpath(r))

-----------------------------------------------------------------------------
(* The provider *)

\* what text_to_speech.convert can raise, and what its stream can raise
ProviderErrors == {"voice_not_permitted", "rate_limit"}
StreamErrors == {"network"}

\* the items of the stream with identity sid: a chunk of bytes, or something else
StreamOf(sid, shape) ==
    [i \in 1..Len(shape) |-> [sid |-> sid, idx |-> i, bytes |-> shape[i]]]

StreamShapes == [1..StreamLen -> BOOLEAN]

IsBytes(item) == item.bytes

Chunk(item) == <<item.sid, item.idx>>

RECURSIVE BytesOf(_)
BytesOf(s) ==
    IF s = <<>> THEN <<>>
    ELSE (IF IsBytes(Head(s)) THEN <<Chunk(Head(s))>> ELSE <<>>) \o BytesOf(Tail(s))

-----------------------------------------------------------------------------
(* synthesize_text *)

Procs == 1..NumProcs

\* a slow reading of "a" and a fast reading of "b": rates at and beyond
\* each end of the provider's range
SlowRates == {ClampLo - 1, ClampLo}
FastRates == {ClampHi, ClampHi + 1}

DefaultRequest(text, voice_id, rate) ==
    [text |-> text, voice_id |-> voice_id, model_id |-> <<"eleven_multilingual_v2">>,
     speaking_rate |-> rate, stability |-> DefaultStability,
     similarity_boost |-> DefaultSimilarity, style |-> DefaultStyle,
     use_speaker_boost |-> TRUE, output_format |-> <<"mp3_22050_32">>]

SynthRequests ==
    {DefaultRequest(<<"a">>, <<"v">>, r) : r \in SlowRates}
    \cup {DefaultRequest(<<"b">>, <<"v">>, r) : r \in FastRates}

\* the raw speaking_rate as the speed
VoiceSettingsRawSpeed(r) ==
    [stability |-> r.stability, similarity_boost |-> r.similarity_boost, style |-> r.style,
     use_speaker_boost |-> r.use_speaker_boost, speed |-> r.speaking_rate]

\* lines 273-279: VoiceSettings(..., speed=clamped_speed)
VoiceSettings(r) ==
    [stability |-> r.stability, similarity_boost |-> r.similarity_boost, style |-> r.style,
     use_speaker_boost |-> r.use_speaker_boost, speed |-> ClampedSpeed(r.speaking_rate)]

\* lines 267-280: the keyword arguments of text_to_speech.convert
ConvertArgs(r) ==
    [voice_id |-> r.voice_id, output_format |-> r.output_format, model_id |-> r.model_id,
     text |-> r.text, voice_settings |-> VoiceSettings(r)]

NoReq == [text |-> <<>>]

OpenHandles == {handle[q] : q \in Procs}

EndCall(p, outcome) ==
    log' = [log EXCEPT ![p] = Append(@, [req |-> req[p], outcome |-> outcome,
                                         hit |-> FALSE,
                                         filename |-> Fname(req[p]),
                                         path |-> Fpath(req[p]),
                                         nconv |-> nconv'[p]])]

\* the client is constructed before the cache is looked at
EnterClientFirst(p, limit) ==
    /\ pc[p] = "idle"
    /\ Len(log[p]) < limit
    /\ \E r \in SynthRequests, k \in BOOLEAN :
          /\ req' = [req EXCEPT ![p] = r]
          /\ apiKey' = [apiKey EXCEPT ![p] = k]
          /\ nconv' = [nconv EXCEPT ![p] = 0]
          /\ IF ~k \/ CacheHit(fs, r)
             THEN /\ pc' = pc
                  /\ log' = [log EXCEPT ![p] =
                                Append(@, [req |-> r,
                                           outcome |-> IF k THEN "returned" ELSE "ElevenLabsError",
                                           hit |-> k, filename |-> Fname(r),
                                           path |-> Fpath(r), nconv |-> 0])]
             ELSE /\ pc' = [pc EXCEPT ![p] = "miss"]
                  /\ log' = log
    /\ UNCHANGED <<analyzerVars, groupVars, fs, stream, spos, handle, foff, streams, sent,
                 keyVars, voiceVars, buildVars>>

\* lines 252-259 and 290: derive the path; return at once when the file exists
Enter(p, limit) ==
    /\ pc[p] = "idle"
    /\ Len(log[p]) < limit
    /\ \E r \in SynthRequests, k \in BOOLEAN :
          /\ req' = [req EXCEPT ![p] = r]
          /\ apiKey' = [apiKey EXCEPT ![p] = k]
          /\ nconv' = [nconv EXCEPT ![p] = 0]
          /\ IF CacheHit(fs, r)
             THEN /\ pc' = pc
                  /\ log' = [log EXCEPT ![p] = Append(@, [req |-> r, outcome |-> "returned",
                                                      hit |-> TRUE,
                                                      filename |-> Fname(r),
                                                      path |-> Fpath(r), nconv |-> 0])]
             ELSE /\ pc' = [pc EXCEPT ![p] = "miss"]
                  /\ log' = log
    /\ UNCHANGED <<analyzerVars, groupVars, fs, stream, spos, handle, foff, streams, sent,
                 keyVars, voiceVars, buildVars>>

\* line 260: _client() raises when the key is missing
ClientFails(p) ==
    /\ pc[p] = "miss"
    /\ ~apiKey[p]
    /\ pc' = [pc EXCEPT ![p] = "idle"]
    /\ nconv' = nconv
    /\ EndCall(p, "ElevenLabsError")
    /\ UNCHANGED <<analyzerVars, groupVars, fs, req, apiKey, stream, spos, handle, foff, streams, sent,
                 keyVars, voiceVars, buildVars>>

\* lines 267-280: the provider call returns a stream
Convert(p) ==
    /\ pc[p] = "miss"
    /\ apiKey[p]
    /\ \E shape \in StreamShapes :
          /\ stream' = [stream EXCEPT ![p] = StreamOf(Len(streams) + 1, shape)]
          /\ streams' = Append(streams, StreamOf(Len(streams) + 1, shape))
    /\ sent' = Append(sent, ConvertArgs(req[p]))
    /\ spos' = [spos EXCEPT ![p] = 0]
    /\ nconv' = [nconv EXCEPT ![p] = @ + 1]
    /\ pc' = [pc EXCEPT ![p] = "open"]
    /\ UNCHANGED <<analyzerVars, groupVars, fs, req, apiKey, handle, foff, log,
                 keyVars, voiceVars, buildVars>>

\* lines 267-280: the provider call raises
ConvertFails(p) ==
    /\ pc[p] = "miss"
    /\ apiKey[p]
    /\ sent' = Append(sent, ConvertArgs(req[p]))
    /\ nconv' = [nconv EXCEPT ![p] = @ + 1]
    /\ pc' = [pc EXCEPT ![p] = "idle"]
    /\ \E e \in ProviderErrors : EndCall(p, e)
    /\ UNCHANGED <<analyzerVars, groupVars, fs, req, apiKey, stream, spos, handle, foff, streams,
                 keyVars, voiceVars, buildVars>>

\* lines 282-283: open(tmp_path, "wb")
OpenTmp(p) ==
    /\ pc[p] = "open"
    /\ handle' = [handle EXCEPT ![p] = OpenedInode(fs, TmpPath(Fpath(req[p])))]
    /\ foff' = [foff EXCEPT ![p] = 0]
    /\ fs' = FsOpenWB(fs, TmpPath(Fpath(req[p])))
    /\ pc' = [pc EXCEPT ![p] = "write"]
    /\ UNCHANGED <<analyzerVars, groupVars, req, apiKey, stream, spos, nconv, log, streams, sent,
                 keyVars, voiceVars, buildVars>>

\* lines 284-286: one iteration of the for loop
WriteChunk(p) ==
    /\ pc[p] = "write"
    /\ spos[p] < Len(stream[p])
    /\ LET item == stream[p][spos[p] + 1]
       IN  IF IsBytes(item)
           THEN /\ fs' = FsWrite(fs, handle[p], foff[p], Chunk(item))
                /\ foff' = [foff EXCEPT ![p] = @ + 1]
           ELSE UNCHANGED <<fs, foff>>
    /\ spos' = [spos EXCEPT ![p] = @ + 1]
    /\ UNCHANGED <<analyzerVars, groupVars, pc, req, apiKey, stream, handle, nconv, log, streams, sent,
                 keyVars, voiceVars, buildVars>>

\* lines 284, 283: the stream is exhausted; the with block closes f
CloseTmp(p) ==
    /\ pc[p] = "write"
    /\ spos[p] = Len(stream[p])
    /\ handle' = [handle EXCEPT ![p] = NoFile]
    /\ fs' = Collect(fs, {handle'[q] : q \in Procs})
    /\ pc' = [pc EXCEPT ![p] = "replace"]
    /\ UNCHANGED <<analyzerVars, groupVars, req, apiKey, stream, spos, foff, nconv, log, streams, sent,
                 keyVars, voiceVars, buildVars>>

\* the rename sits in a finally clause: it runs when the iterator raises
StreamFailsThenReplaces(p) ==
    /\ pc[p] = "write"
    /\ handle' = [handle EXCEPT ![p] = NoFile]
    /\ fs' = Collect(FsReplace(fs, TmpPath(Fpath(req[p])), Fpath(req[p])),
                     {handle'[q] : q \in Procs})
    /\ pc' = [pc EXCEPT ![p] = "idle"]
    /\ nconv' = nconv
    /\ \E e \in StreamErrors : EndCall(p, e)
    /\ UNCHANGED <<analyzerVars, groupVars, req, apiKey, stream, spos, foff, streams, sent,
                 keyVars, voiceVars, buildVars>>

\* line 284: the iterator raises; the with block closes f and the error leaves
StreamFails(p) ==
    /\ pc[p] = "write"
    /\ handle' = [handle EXCEPT ![p] = NoFile]
    /\ fs' = Collect(fs, {handle'[q] : q \in Procs})
    /\ pc' = [pc EXCEPT ![p] = "idle"]
    /\ nconv' = nconv
    /\ \E e \in StreamErrors : EndCall(p, e)
    /\ UNCHANGED <<analyzerVars, groupVars, req, apiKey, stream, spos, foff, streams, sent,
                 keyVars, voiceVars, buildVars>>

\* lines 288-290: os.replace(tmp_path, fpath), then return
Replace(p) ==
    /\ pc[p] = "replace"
    /\ pc' = [pc EXCEPT ![p] = "idle"]
    /\ nconv' = nconv
    /\ IF Exists(fs, TmpPath(Fpath(req[p])))
       THEN /\ fs' = Collect(FsReplace(fs, TmpPath(Fpath(req[p])), Fpath(req[p])),
                             OpenHandles)
            /\ EndCall(p, "returned")
       ELSE /\ fs' = fs
            /\ EndCall(p, "FileNotFoundError")
    /\ UNCHANGED <<analyzerVars, groupVars, req, apiKey, stream, spos, handle, foff, streams, sent,
                 keyVars, voiceVars, buildVars>>

synthesize_text(p, limit) ==
    \/ Enter(p, limit)
    \/ ClientFails(p)
    \/ Convert(p)
    \/ ConvertFails(p)
    \/ OpenTmp(p)
    \/ WriteChunk(p)
    \/ CloseTmp(p)
    \/ StreamFails(p)
    \/ Replace(p)

SynthIdle ==
    /\ fs = EmptyFs
    /\ pc = [p \in Procs |-> "idle"]
    /\ req = [p \in Procs |-> NoReq]
    /\ apiKey = [p \in Procs |-> TRUE]
    /\ stream = [p \in Procs |-> <<>>]
    /\ spos = [p \in Procs |-> 0]
    /\ handle = [p \in Procs |-> NoFile]
    /\ foff = [p \in Procs |-> 0]
    /\ nconv = [p \in Procs |-> 0]
    /\ log = [p \in Procs |-> <<>>]
    /\ streams = <<>>
    /\ sent = <<>>

-----------------------------------------------------------------------------
(* Two requests and their cache entries *)

KeyTexts == {<<"a">>, <<"b">>, <<"a", US>>}
KeyVoices == {<<"v">>, <<US, "v">>}
KeyModels == {<<"eleven_multilingual_v2">>, <<"eleven_turbo_v2">>}
KeyRates == {ClampLo - 1, ClampLo, ClampHi, ClampHi + 1}
KeyFormats == {<<"mp3_22050_32">>, <<"mp3_44100_128">>}

KeyRequests ==
    [text : KeyTexts, voice_id : KeyVoices, model_id : KeyModels,
     speaking_rate : KeyRates, stability : {DefaultStability, DefaultStability + 1},
     similarity_boost : {DefaultSimilarity, DefaultSimilarity + 1},
     style : {DefaultStyle, DefaultStyle + 1}, use_speaker_boost : BOOLEAN,
     output_format : KeyFormats]

NoPath == [base |-> <<>>, ext |-> ""]

KeyIdle ==
    /\ keyA = NoReq
    /\ keyB = NoReq
    /\ entA = NoPath
    /\ entB = NoPath

KeyInit ==
    /\ keyA \in KeyRequests
    /\ keyB = NoReq
    /\ entA = NoPath
    /\ entB = NoPath

\* lines 254-257 of synthesize_text for the two requests, same out_dir
DeriveEntries ==
    /\ keyB = NoReq
    /\ \E r \in KeyRequests :
          /\ keyB' = r
          /\ entA' = Fpath(keyA)
          /\ entB' = Fpath(r)
    /\ UNCHANGED <<analyzerVars, groupVars, keyA, synthVars, voiceVars, buildVars>>

-----------------------------------------------------------------------------
(* The voice directory *)

\* labels.get(k, "")
Get(labels, k) == IF k \in DOMAIN labels THEN labels[k] ELSE <<>>

\* labels.values()
Values(labels) == {labels[k] : k \in DOMAIN labels}

\* lines 78-87 without the continue of line 84
StrictMatchNoContinue(v, label) ==
    LET lang == Lower(Strip(Get(v.labels, "language")))
    IN  \/ lang # <<>> /\ lang = label
        \/ \E val \in Values(v.labels) : Contains(Lower(val), label)

\* lines 78-87: whether the loop body appends voice v; label is already
\* stripped and lowered
StrictMatch(v, label) ==
    LET lang == Lower(Strip(Get(v.labels, "language")))
    IN  IF lang # <<>>
        THEN lang = label
        ELSE \E val \in Values(v.labels) : Contains(Lower(val), label)

\* lines 77-88: the loop over list_voices()
RECURSIVE StrictLoop(_, _, _)
StrictLoop(vs, label, acc) ==
    IF vs = <<>> THEN acc
    ELSE StrictLoop(Tail(vs), label,
                    IF StrictMatch(Head(vs), label)
                    THEN Append(acc, <<Head(vs).voice_id, Head(vs).name>>)
                    ELSE acc)

\* lines 75-88, given what list_voices() returns
voices_for_language_strict(voices, label) ==
    StrictLoop(voices, Lower(Strip(label)), <<>>)

FR == <<"f", "r">>
EN == <<"e", "n">>

LabelStrings == {<<>>, <<" ">>, FR, <<" ", "F", "R">>, <<"x", "f", "r">>}

LabelDicts(keys, strings) == UNION {[D -> strings] : D \in SUBSET keys}

LookupLabels == LabelDicts({"language", "accent"}, LabelStrings)

MkVoice(i, labels) ==
    [voice_id |-> <<"v", Digits[i + 1]>>, name |-> <<"n", Digits[i + 1]>>,
     labels |-> labels]

VoicesIdle ==
    /\ directory = <<>>
    /\ language_label = <<>>
    /\ matches = <<>>
    /\ vpc = "idle"
    /\ envKey = TRUE

VoicesInit ==
    /\ \E n \in 0..MaxVoices : \E ls \in [1..n -> LookupLabels] :
          directory = [i \in 1..n |-> MkVoice(i, ls[i])]
    /\ language_label \in LabelStrings
    /\ matches = <<>>
    /\ vpc = "call"
    /\ envKey \in BOOLEAN

\* lines 28-32, 37: list_voices() raises when the key is missing
StrictLookupFails ==
    /\ vpc = "call"
    /\ ~envKey
    /\ vpc' = "raised"
    /\ UNCHANGED <<analyzerVars, groupVars, directory, language_label, matches, envKey,
                   synthVars, keyVars, buildVars>>

\* lines 69-88
StrictLookup ==
    /\ vpc = "call"
    /\ envKey
    /\ matches' = voices_for_language_strict(directory, language_label)
    /\ vpc' = "done"
    /\ UNCHANGED <<analyzerVars, groupVars, directory, language_label, envKey, synthVars, keyVars, buildVars>>

-----------------------------------------------------------------------------
(* synthesize_text as one step, for a caller that runs it to its end *)

RECURSIVE FsWriteAll(_, _, _, _)
FsWriteAll(f, ino, off, items) ==
    IF items = <<>> THEN f
    ELSE IF IsBytes(Head(items))
         THEN FsWriteAll(FsWrite(f, ino, off, Chunk(Head(items))), ino, off + 1, Tail(items))
         ELSE FsWriteAll(f, ino, off, Tail(items))

\* lines 282-286 for a stream of one chunk, ending (or raising) after n items
Written(f, r, n) ==
    LET tmp == TmpPath(Fpath(r))
        s   == StreamOf(f.next, <<TRUE>>)
    IN  FsWriteAll(FsOpenWB(f, tmp), OpenedInode(f, tmp), 0, SubSeq(s, 1, n))

\* lines 252-290: every way one call can end, with the file system it leaves
SynthResults(f, r, key) ==
    IF CacheHit(f, r) THEN {[outcome |-> "returned", fs |-> f]}
    ELSE IF ~key THEN {[outcome |-> "ElevenLabsError", fs |-> f]}
    ELSE {[outcome |-> e, fs |-> f] : e \in ProviderErrors}
         \cup {[outcome |-> e, fs |-> w] : e \in StreamErrors, w \in {Written(f, r, 0)}}
         \cup {[outcome |-> "returned", fs |-> Collect(x, {})] :
                  x \in {FsReplace(w, TmpPath(Fpath(r)), Fpath(r)) : w \in {Written(f, r, 1)}}}

-----------------------------------------------------------------------------
(* build_simple_apkg *)

\* line 37-40: VOICE_WHITELIST_PREFIXES
VietnameseCentral == <<"Vietnamese Central">>
VOICE_WHITELIST_PREFIXES == (VietnameseCentral :> {<<"RmcV9c">>})

Plain == [voice_id |-> <<"v", "1">>, name |-> <<"n", "1">>, labels |-> ("language" :> FR)]
Famous == [voice_id |-> <<"v", "2">>, name |-> <<"n", "2">>,
           labels |-> ("language" :> FR) @@ ("category" :> <<"Famous">>)]
Listed9c == [voice_id |-> <<"RmcV9c", "x">>, name |-> <<"n", "3">>,
             labels |-> ("language" :> EN)]

BuildDirectories == {<<>>, <<Plain>>, <<Plain, Famous>>, <<Listed9c, Plain>>}

BuildLanguages == {<<"F", "R">>, EN, VietnameseCentral}

BuildVoiceIds ==
    {<<Plain.voice_id>>, <<Plain.voice_id, Famous.voice_id>>, <<Plain.voice_id, Plain.voice_id>>}

\* the arguments voice_ids and tts_language with the directory they meet
BuildInputs ==
    {[voice_ids |-> <<>>, tts_language |-> l, directory |-> d] :
        l \in BuildLanguages, d \in BuildDirectories}
    \cup {[voice_ids |-> v, tts_language |-> VietnameseCentral,
           directory |-> <<Listed9c, Plain>>] : v \in BuildVoiceIds}
    \cup {[voice_ids |-> <<Plain.voice_id, Famous.voice_id>>,
           tts_language |-> VietnameseCentral, directory |-> <<Plain, Famous>>]}

BuildTexts == {<<>>, <<"a">>, <<"b">>}

Ids(voices) == [i \in DOMAIN voices |-> voices[i].voice_id]

SeqFilter(s, keep) == SelectSeq(s, LAMBDA x : x \in keep)

\* lines 45-57: the candidates when the caller names no voice_ids
Listed(voices, language) ==
    IF language \in DOMAIN VOICE_WHITELIST_PREFIXES
    THEN LET allowed == {id \in Range(Ids(voices)) :
                            \E p \in VOICE_WHITELIST_PREFIXES[language] : StartsWith(id, p)}
         IN  SeqFilter(Ids(voices), allowed \ {<<>>})
    ELSE LET strict == voices_for_language_strict(voices, language)
         IN  IF strict # <<>>
             THEN [i \in DOMAIN strict |-> strict[i][1]]
             ELSE Ids(voices)

\* the category compared as it is spelled
FamousIdsCaseSensitive(voices) ==
    {v.voice_id : v \in {w \in Range(voices) : Get(w.labels, "category") = <<"famous">>}}

\* line 62: famous_ids
FamousIds(voices) ==
    {v.voice_id : v \in {w \in Range(voices) : Lower(Get(w.labels, "category")) = <<"famous">>}}

\* lines 63-65
WithoutFamous(ids, voices) == SeqFilter(ids, Range(ids) \ FamousIds(voices))

\* drawing with replacement
Resamples(s) == {[i \in DOMAIN s |-> s[f[i]]] : f \in [DOMAIN s -> DOMAIN s]}

\* lines 84-85: the orders random.shuffle can leave a copy of the list in
Shuffles(s) ==
    {[i \in DOMAIN s |-> s[f[i]]] :
        f \in {g \in [DOMAIN s -> DOMAIN s] : \A i, j \in DOMAIN s : i # j => g[i] # g[j]}}

NoAudio == [filename |-> NoPath, path |-> NoPath]

\* the bare file name as the field
TargetAudioFieldBare(info) == IF info.filename # NoPath THEN <<info.filename>> ELSE <<>>

\* line 110: f"[sound:{filename}]", or ""
TargetAudioField(info) ==
    IF info.filename # NoPath THEN <<"[sound:", info.filename, "]">> ELSE <<>>

\* line 104: except Exception catches every error synthesize_text can raise
CaughtOnlyRejection(e) == e = "voice_not_permitted"

Caught(e) == TRUE

BuildIdle ==
    /\ bpc = "idle"
    /\ pairs = <<>>
    /\ voice_ids = <<>>
    /\ tts_language = <<>>
    /\ resolved_voice_ids = <<>>
    /\ idx = 0
    /\ candidate_voices = <<>>
    /\ cpos = 0
    /\ audio_info = NoAudio
    /\ last_error = ""
    /\ media_files = <<>>
    /\ notes = <<>>
    /\ tried = <<>>
    /\ rowlog = <<>>
    /\ filter_error = ""
    /\ raised = ""

BuildInit ==
    /\ bpc = "resolve"
    /\ \E n \in 0..MaxPairs : \E bs \in [1..n -> BuildTexts] :
          pairs = [i \in 1..n |-> [A |-> <<Digits[i + 1]>>, B |-> bs[i]]]
    /\ \E in \in BuildInputs :
          /\ voice_ids = in.voice_ids
          /\ tts_language = in.tts_language
          /\ directory = in.directory
    /\ envKey \in BOOLEAN
    /\ resolved_voice_ids = <<>>
    /\ idx = 0
    /\ candidate_voices = <<>>
    /\ cpos = 0
    /\ audio_info = NoAudio
    /\ last_error = ""
    /\ media_files = <<>>
    /\ notes = <<>>
    /\ tried = <<>>
    /\ rowlog = <<>>
    /\ filter_error = ""
    /\ raised = ""
    /\ language_label = <<>>
    /\ matches = <<>>
    /\ vpc = "idle"

\* lines 41-42: the caller's voice_ids are the candidates
ResolveGiven ==
    /\ bpc = "resolve"
    /\ voice_ids # <<>>
    /\ resolved_voice_ids' = voice_ids
    /\ bpc' = "row"
    /\ UNCHANGED <<analyzerVars, groupVars, pairs, voice_ids, tts_language, idx, candidate_voices, cpos, audio_info,
                   last_error, media_files, notes, tried, rowlog, filter_error, raised,
                   directory, language_label, matches, vpc, envKey, synthVars, keyVars>>

\* lines 43-57: list_voices() raises (no key, or the provider cannot be reached)
ResolveFails ==
    /\ bpc = "resolve"
    /\ voice_ids = <<>>
    /\ bpc' = "raised"
    /\ \E e \in (IF envKey THEN {"network"} ELSE {"ElevenLabsError"}) : raised' = e
    /\ UNCHANGED <<analyzerVars, groupVars, pairs, voice_ids, tts_language, resolved_voice_ids, idx, candidate_voices,
                   cpos, audio_info, last_error, media_files, notes, tried, rowlog, filter_error,
                   directory, language_label, matches, vpc, envKey, synthVars, keyVars>>

\* lines 43-72: the directory decides; the famous filter is skipped when its own
\* list_voices() raises (lines 69-71)
ResolveListed ==
    /\ bpc = "resolve"
    /\ voice_ids = <<>>
    /\ envKey
    /\ \E filtered \in BOOLEAN :
          /\ resolved_voice_ids' =
                IF filtered THEN WithoutFamous(Listed(directory, tts_language), directory)
                ELSE Listed(directory, tts_language)
          /\ filter_error' = IF filtered THEN "" ELSE "network"
    /\ bpc' = "row"
    /\ UNCHANGED <<analyzerVars, groupVars, pairs, voice_ids, tts_language, idx, candidate_voices, cpos, audio_info,
                   last_error, media_files, notes, tried, rowlog, raised,
                   directory, language_label, matches, vpc, envKey, synthVars, keyVars>>

\* lines 77-86: the next row; shuffle its candidates
StartRow ==
    /\ bpc = "row"
    /\ idx < Len(pairs)
    /\ audio_info' = NoAudio
    /\ tried' = <<>>
    /\ cpos' = 0
    /\ IF pairs[idx + 1].B # <<>> /\ resolved_voice_ids # <<>>
       THEN /\ candidate_voices' \in Shuffles(resolved_voice_ids)
            /\ last_error' = ""
            /\ bpc' = "try"
       ELSE /\ bpc' = "note"
            /\ UNCHANGED <<candidate_voices, last_error>>
    /\ UNCHANGED <<analyzerVars, groupVars, pairs, voice_ids, tts_language, resolved_voice_ids, idx, media_files,
                   notes, rowlog, filter_error, raised, fs,
                   pc, req, apiKey, stream, spos, handle, foff, nconv, log, streams, sent,
                   voiceVars, keyVars>>

\* lines 87-108: one iteration of the voice loop
TryVoice ==
    /\ bpc = "try"
    /\ cpos < Len(candidate_voices)
    /\ LET voice_id == candidate_voices[cpos + 1]
           r == DefaultRequest(pairs[idx + 1].B, voice_id, DefaultRate)
       IN  \E res \in SynthResults(fs, r, envKey) :
              /\ fs' = res.fs
              /\ tried' = Append(tried, [voice |-> voice_id, outcome |-> res.outcome])
              /\ IF res.outcome = "returned"
                 THEN /\ audio_info' = [filename |-> Fname(r), path |-> Fpath(r)]
                      /\ media_files' = Append(media_files, Fpath(r))
                      /\ bpc' = "note"
                      /\ UNCHANGED <<cpos, last_error, raised>>
                 ELSE IF Caught(res.outcome)
                 THEN /\ last_error' = res.outcome
                      /\ cpos' = cpos + 1
                      /\ bpc' = IF cpos + 1 = Len(candidate_voices) THEN "note" ELSE "try"
                      /\ UNCHANGED <<audio_info, media_files, raised>>
                 ELSE /\ raised' = res.outcome
                      /\ bpc' = "raised"
                      /\ UNCHANGED <<audio_info, media_files, cpos, last_error>>
    /\ UNCHANGED <<analyzerVars, groupVars, pairs, voice_ids, tts_language, resolved_voice_ids, idx, candidate_voices,
                   notes, rowlog, filter_error,
                   pc, req, apiKey, stream, spos, handle, foff, nconv, log, streams, sent,
                   voiceVars, keyVars>>

\* lines 110-121: the row's note
AddNote ==
    /\ bpc = "note"
    /\ notes' = Append(notes, [UserLanguage |-> pairs[idx + 1].A,
                               TargetAudio |-> TargetAudioField(audio_info),
                               TargetLanguage |-> pairs[idx + 1].B])
    /\ rowlog' = Append(rowlog, tried)
    /\ idx' = idx + 1
    /\ bpc' = "row"
    /\ UNCHANGED <<analyzerVars, groupVars, pairs, voice_ids, tts_language, resolved_voice_ids, candidate_voices, cpos,
                   audio_info, last_error, media_files, tried, filter_error, raised,
                   synthVars, voiceVars, keyVars>>

\* lines 123-130: write the package and return its path
WritePackage ==
    /\ bpc = "row"
    /\ idx = Len(pairs)
    /\ bpc' = "done"
    /\ UNCHANGED <<analyzerVars, groupVars, pairs, voice_ids, tts_language, resolved_voice_ids, idx, candidate_voices,
                   cpos, audio_info, last_error, media_files, notes, tried, rowlog, filter_error, raised,
                   synthVars, voiceVars, keyVars>>

-----------------------------------------------------------------------------
(* fr_tokens *)

\* the Unicode code point of each character the model uses; "a_grave" is
\* U+00E0, "e_acute" is U+00E9 and "oe" is the French ligature U+0153
CodePoint ==
    [c \in {" ", "'", ".", "1", "A", "P", "_", "a", "b", "c", "e", "f",
            "g", "h", "i", "j", "l", "n", "r", "s", "t", "u", "a_grave",
            "e_acute", "oe"} |->
        CASE c = " " -> 32  [] c = "'" -> 39  [] c = "." -> 46  [] c = "1" -> 49
          [] c = "A" -> 65  [] c = "P" -> 80  [] c = "_" -> 95  [] c = "a" -> 97
          [] c = "b" -> 98  [] c = "c" -> 99  [] c = "e" -> 101  [] c = "f" -> 102
          [] c = "g" -> 103  [] c = "h" -> 104  [] c = "i" -> 105  [] c = "j" -> 106
          [] c = "l" -> 108  [] c = "n" -> 110  [] c = "r" -> 114  [] c = "s" -> 115
          [] c = "t" -> 116  [] c = "u" -> 117  [] c = "a_grave" -> 224  [] c = "e_acute" -> 233
          [] c = "oe" -> 339]

\* line 20: the character class A-Z, a-z, U+00C0-U+00D6, U+00D8-U+00F6,
\* U+00F8-U+00FF
InWordClass(c) ==
    CodePoint[c] \in (65..90) \cup (97..122) \cup (192..214) \cup (216..246) \cup (248..255)

\* line 20: [..]+ is greedy: the last position of the run that starts at i
RECURSIVE RunEnd(_, _)
RunEnd(text, i) ==
    IF i < Len(text) /\ InWordClass(text[i + 1]) THEN RunEnd(text, i + 1) ELSE i

\* line 20: the end of the match that starts at i: the run, then the optional
\* group (?:'[..]+)? when an apostrophe and a further run follow
MatchEnd(text, i) ==
    LET j == RunEnd(text, i)
    IN  IF j + 2 <= Len(text) /\ text[j + 1] = "'" /\ InWordClass(text[j + 2])
        THEN RunEnd(text, j + 2)
        ELSE j

\* line 23: WORD_RE.finditer scans from the left, each match starting at the
\* first position after the match before it where one can start
RECURSIVE FindIter(_, _)
FindIter(text, i) ==
    IF i > Len(text) THEN <<>>
    ELSE IF InWordClass(text[i])
         THEN <<[start |-> i, end |-> MatchEnd(text, i)]>>
              \o FindIter(text, MatchEnd(text, i) + 1)
         ELSE FindIter(text, i + 1)

\* line 23: m.group(0) of every match
Group0(text, ms) == [k \in DOMAIN ms |-> SubSeq(text, ms[k].start, ms[k].end)]

fr_tokens(text) == Group0(text, FindIter(text, 1))

\* lines 34-37
normalize_token(t) == Lower(t)

-----------------------------------------------------------------------------
(* band_from_zipf and analyze_sentence.  A score is an integer number of    *)
(* ten-thousandths: 30000 stands for 3.0, 29996 for 2.9996; a share is in   *)
(* the same unit, 10000 standing for 1.                                     *)

One == 10000

\* lines 28-31: the thresholds
ZipfA1 == 55000
ZipfA2 == 45000
ZipfB1 == 35000
ZipfB2 == 25000

\* lines 42-44: the defaults
DefaultRareThreshold == 30000
DefaultUsefulMin == 30000
DefaultUsefulMax == 48000

\* the thresholds compared with <= instead of the source's >=
band_from_zipf_strict(z) ==
    IF z > ZipfA1 THEN "A1 (ultra common)"
    ELSE IF z > ZipfA2 THEN "A2 (very common)"
    ELSE IF z > ZipfB1 THEN "B1 (common)"
    ELSE IF z > ZipfB2 THEN "B2-C1 (uncommon)"
    ELSE "C1-C2 (rare)"

\* lines 27-32; the dash of the last two labels is written "-"
band_from_zipf(z) ==
    IF z >= ZipfA1 THEN "A1 (ultra common)"
    ELSE IF z >= ZipfA2 THEN "A2 (very common)"
    ELSE IF z >= ZipfB1 THEN "B1 (common)"
    ELSE IF z >= ZipfB2 THEN "B2-C1 (uncommon)"
    ELSE "C1-C2 (rare)"

\* the integer nearest to num / den, an exact half going to the even one
RoundHalfEven(num, den) ==
    LET q == num \div den
        r == num % den
    IN  IF 2 * r < den THEN q
        ELSE IF 2 * r > den THEN q + 1
        ELSE q + (q % 2)

\* round(num / den, 3)
Round3(num, den) == 10 * RoundHalfEven(num, 10 * den)

None == [none |-> TRUE]

\* the fallback of lines 12-17 is never used
zipf_frequency_always_wordfreq(nt) == oracle[nt]

\* lines 12-17 and 52: wordfreq's answer, or 0.0 from the fallback
zipf_frequency(nt) == IF WORD_FREQ_AVAILABLE THEN oracle[nt] ELSE 0

\* lines 51-60: the row of one token
RowOf(t, known, rare) ==
    LET nt == normalize_token(t)
        z  == zipf_frequency(nt)
    IN  [token |-> t, norm |-> nt, zipf |-> Round3(z, 1), band |-> band_from_zipf(z),
         is_rare |-> z < rare, is_known |-> nt \in known]

RECURSIVE SumSeq(_)
SumSeq(s) == IF s = <<>> THEN 0 ELSE Head(s) + SumSeq(Tail(s))

\* sorted(): x goes after every element whose key is not larger (stable)
RECURSIVE InsertByZipf(_, _)
InsertByZipf(x, s) ==
    IF s = <<>> THEN <<x>>
    ELSE IF x.zipf < Head(s).zipf THEN <<x>> \o s
    ELSE <<Head(s)>> \o InsertByZipf(x, Tail(s))

RECURSIVE SortedByZipf(_)
SortedByZipf(s) ==
    IF s = <<>> THEN <<>>
    ELSE InsertByZipf(s[Len(s)], SortedByZipf(SubSeq(s, 1, Len(s) - 1)))

\* statistics.median of a non-empty list
Median(zs) ==
    LET srt == SortedByZipf([i \in DOMAIN zs |-> [zipf |-> zs[i]]])
        n   == Len(zs)
    IN  IF n % 2 = 1 THEN Round3(srt[(n + 1) \div 2].zipf, 1)
        ELSE Round3(srt[n \div 2].zipf + srt[(n \div 2) + 1].zipf, 2)

\* sum(r["is_rare"] for r in rows), sum(r["is_known"] for r in rows)
CountRare(rows) == Cardinality({i \in DOMAIN rows : rows[i].is_rare})

CountKnown(rows) == Cardinality({i \in DOMAIN rows : rows[i].is_known})

\* max(len(rows), 1) replaced by len(rows) + 1
ShareDenominatorPlusOne(rows) == Len(rows) + 1

\* lines 66 and 69: max(len(rows), 1)
ShareDenominator(rows) == Max(Len(rows), 1)

\* the upper bound useful_max is not applied
IsCandidateNoUpper(r, umin, umax) == ~r.is_known /\ umin <= r.zipf

\* line 75: the filter of the candidates
IsCandidate(r, umin, umax) == ~r.is_known /\ umin <= r.zipf /\ r.zipf <= umax

\* the last row with the minimum
LastMin(rows) ==
    rows[CHOOSE i \in DOMAIN rows :
            /\ \A j \in DOMAIN rows : rows[i].zipf <= rows[j].zipf
            /\ \A j \in (i + 1)..Len(rows) : rows[j].zipf > rows[i].zipf]

\* min(rows, key=zipf), max(rows, key=zipf): the first row with the extreme
FirstMin(rows) ==
    rows[CHOOSE i \in DOMAIN rows :
            /\ \A j \in DOMAIN rows : rows[i].zipf <= rows[j].zipf
            /\ \A j \in 1..(i - 1) : rows[j].zipf > rows[i].zipf]

FirstMax(rows) ==
    rows[CHOOSE i \in DOMAIN rows :
            /\ \A j \in DOMAIN rows : rows[i].zipf >= rows[j].zipf
            /\ \A j \in 1..(i - 1) : rows[j].zipf < rows[i].zipf]

\* the placeholder of line 63 is [1.0]
ZipfsPlaceholderOne(rows) == IF rows = <<>> THEN <<One>> ELSE [i \in DOMAIN rows |-> rows[i].zipf]

\* line 63: zipfs, with the placeholder [0.0] for no rows
Zipfs(rows) == IF rows = <<>> THEN <<0>> ELSE [i \in DOMAIN rows |-> rows[i].zipf]

\* lines 46-96
analyze_sentence(text, known0, rare, umin, umax) ==
    LET known == {normalize_token(w) : w \in known0}
        tk    == fr_tokens(text)
        rows  == [i \in DOMAIN tk |-> RowOf(tk[i], known, rare)]
        zipfs == Zipfs(rows)
        cands == SortedByZipf(SelectSeq(rows, LAMBDA r : IsCandidate(r, umin, umax)))
    IN  [tokens |-> rows,
         stats |-> [num_tokens |-> Len(rows),
                    mean_zipf |-> Round3(SumSeq(zipfs), Len(zipfs)),
                    median_zipf |-> Median(zipfs),
                    share_rare_words |->
                        Round3(One * CountRare(rows), ShareDenominator(rows)),
                    known_word_coverage |->
                        Round3(One * CountKnown(rows), ShareDenominator(rows))],
         flashcard_candidates |->
             [i \in DOMAIN cands |->
                 [token |-> cands[i].token, zipf |-> cands[i].zipf, band |-> cands[i].band]],
         hardest_word |-> IF rows # <<>> THEN FirstMin(rows) ELSE None,
         easiest_word |-> IF rows # <<>> THEN FirstMax(rows) ELSE None]

\* ---- the inputs

MaxText == 5         \* characters of a text given to fr_tokens
MaxTokens == 3       \* words of a sentence given to analyze_sentence

TokenAlphabet == {"a", "e_acute", "oe", "'", " ", "1"}

\* "j'ai ete a Paris", with its accents
Elision == <<"j", "'", "a", "i", " ", "e_acute", "t", "e_acute", " ", "a_grave", " ", "P", "a", "r", "i", "s">>

Words == {<<"a">>, <<"A">>, <<"b">>}

NoTokenTexts == {<<>>, <<" ">>, <<"1", ".">>}

RECURSIVE Join(_)
Join(ws) == IF Len(ws) = 1 THEN ws[1] ELSE ws[1] \o <<" ">> \o Join(Tail(ws))

\* the scores wordfreq may give: the thresholds of band_from_zipf, of the
\* defaults, and scores that rounding to 3 decimals moves onto a threshold
Scores == {0, 24996, ZipfB2, 29996, ZipfB1, ZipfA2, 48004, 50000, ZipfA1}

\* rare_threshold, useful_min, useful_max
Policies ==
    {[rare |-> DefaultRareThreshold, umin |-> DefaultUsefulMin, umax |-> DefaultUsefulMax],
     [rare |-> 0, umin |-> 0, umax |-> DefaultUsefulMax],
     [rare |-> ZipfB1, umin |-> ZipfB2, umax |-> ZipfA1]}

KnownSets == SUBSET {<<"A">>, <<"b">>}

Norms(text) == {normalize_token(t) : t \in Range(fr_tokens(text))}

AnalyzerIdle ==
    /\ sentence = <<>>
    /\ known_words = {}
    /\ rare_threshold = DefaultRareThreshold
    /\ useful_min = DefaultUsefulMin
    /\ useful_max = DefaultUsefulMax
    /\ WORD_FREQ_AVAILABLE = TRUE
    /\ oracle = <<>>
    /\ spans = <<>>
    /\ toks = <<>>
    /\ summary = None
    /\ apc = "idle"

\* a text for fr_tokens
TokensInit ==
    /\ \/ \E n \in 0..MaxText : sentence \in [1..n -> TokenAlphabet]
       \/ sentence = Elision
    /\ known_words = {}
    /\ rare_threshold = DefaultRareThreshold
    /\ useful_min = DefaultUsefulMin
    /\ useful_max = DefaultUsefulMax
    /\ WORD_FREQ_AVAILABLE = TRUE
    /\ oracle = <<>>
    /\ spans = <<>>
    /\ toks = <<>>
    /\ summary = None
    /\ apc = "tokenize"

\* lines 22-23
Tokenize ==
    /\ apc = "tokenize"
    /\ spans' = FindIter(sentence, 1)
    /\ toks' = fr_tokens(sentence)
    /\ apc' = "tokenized"
    /\ UNCHANGED <<sentence, known_words, rare_threshold, useful_min, useful_max,
                   WORD_FREQ_AVAILABLE, oracle, summary,
                   synthVars, keyVars, voiceVars, buildVars, groupVars>>

\* the arguments of analyze_sentence, and wordfreq as it answers
AnalyzeInit ==
    /\ \/ sentence \in NoTokenTexts
       \/ \E n \in 1..MaxTokens : \E ws \in [1..n -> Words] : sentence = Join(ws)
    /\ known_words \in KnownSets
    /\ \E p \in Policies :
          /\ rare_threshold = p.rare
          /\ useful_min = p.umin
          /\ useful_max = p.umax
    /\ WORD_FREQ_AVAILABLE \in BOOLEAN
    /\ oracle \in [Norms(sentence) -> Scores]
    /\ spans = <<>>
    /\ toks = <<>>
    /\ summary = None
    /\ apc = "analyze"

\* lines 39-96
Analyze ==
    /\ apc = "analyze"
    /\ spans' = FindIter(sentence, 1)
    /\ toks' = fr_tokens(sentence)
    /\ summary' = analyze_sentence(sentence, known_words, rare_threshold, useful_min,
                                   useful_max)
    /\ apc' = "analyzed"
    /\ UNCHANGED <<sentence, known_words, rare_threshold, useful_min, useful_max,
                   WORD_FREQ_AVAILABLE, oracle,
                   synthVars, keyVars, voiceVars, buildVars, groupVars>>

-----------------------------------------------------------------------------
(* group_voices_by_language *)

\* Python's \w among the characters of the model: letters, digits, "_"
IsWordChar(c) ==
    CodePoint[c] \in (48..57) \cup (65..90) \cup {95} \cup (97..122) \cup (192..214)
                     \cup (216..246) \cup (248..339)

\* [a-z]
IsLowerAZ(c) == CodePoint[c] \in 97..122

\* line 182: \b([a-z]{2})\b matches at position i of s
TwoLetterAt(s, i) ==
    /\ i + 1 <= Len(s)
    /\ IsLowerAZ(s[i]) /\ IsLowerAZ(s[i + 1])
    /\ i = 1 \/ ~IsWordChar(s[i - 1])
    /\ i + 1 = Len(s) \/ ~IsWordChar(s[i + 2])

\* line 182-184: group 1 of the first match of re.search, <<>> for no match
FirstTwoLetterWord(s) ==
    IF \E i \in DOMAIN s : TwoLetterAt(s, i)
    THEN LET i == CHOOSE k \in DOMAIN s :
                     TwoLetterAt(s, k) /\ \A j \in 1..(k - 1) : ~TwoLetterAt(s, j)
         IN  SubSeq(s, i, i + 1)
    ELSE <<>>

FRENCH == <<"f", "r", "e", "n", "c", "h">>
ENGLISH == <<"e", "n", "g", "l", "i", "s", "h">>
IT == <<"i", "t">>

\* lines 97-169, the entries for the codes the model's voices can carry
lang_code_to_name == (FR :> "French") @@ (EN :> "English") @@ (IT :> "Italian")

\* lines 177-187: the first label, in the order of the dict, whose first
\* two-letter word is a known code; <<>> stands for None
RECURSIVE CodeFromLabels(_)
CodeFromLabels(items) ==
    IF items = <<>> THEN <<>>
    ELSE LET potential_code == FirstTwoLetterWord(Lower(items[1].value))
         IN  IF potential_code \in DOMAIN lang_code_to_name
             THEN potential_code
             ELSE CodeFromLabels(Tail(items))

\* lines 193-198: the first checks of the if/elif chain on the name; the
\* further checks (vi, tr, es, ...) have the same form
NameChecks ==
    <<[indicators |-> {FRENCH, <<"f", "r", "a", "n", "c_cedilla", "a", "i", "s">>},
       code |-> FR],
      [indicators |-> {ENGLISH, <<"a", "m", "e", "r", "i", "c", "a", "n">>,
                       <<"b", "r", "i", "t", "i", "s", "h">>},
       code |-> EN],
      [indicators |-> {<<"i", "t", "a", "l", "i", "a", "n">>,
                       <<"i", "t", "a", "l", "i", "a", "n", "o">>},
       code |-> IT]>>

\* lines 190-220: the first check with an indicator inside the lowered name
RECURSIVE CodeFromName(_, _)
CodeFromName(name_lower, checks) ==
    IF checks = <<>> THEN <<>>
    ELSE IF \E ind \in checks[1].indicators : Contains(name_lower, ind)
         THEN checks[1].code
         ELSE CodeFromName(name_lower, Tail(checks))

\* lines 172-226: the key of voice v
LanguageKey(v) ==
    LET fromLabels == CodeFromLabels(v.labels)
        lang_code  == IF fromLabels # <<>> THEN fromLabels
                      ELSE CodeFromName(Lower(v.name), NameChecks)
    IN  IF lang_code # <<>> THEN lang_code_to_name[lang_code] ELSE "Unknown"

\* the dict groups: its keys in insertion order, and the list of each key
NoGroups == [keys |-> <<>>, members |-> <<>>]

\* groups[key] = [(voice_id, name)]: the list is replaced
SetItemSingleton(g, key, x) ==
    IF key \in DOMAIN g.members
    THEN [g EXCEPT !.members[key] = <<x>>]
    ELSE [keys |-> Append(g.keys, key), members |-> (key :> <<x>>) @@ g.members]

\* line 228: groups.setdefault(key, []).append((voice_id, name))
SetDefaultAppend(g, key, x) ==
    IF key \in DOMAIN g.members
    THEN [g EXCEPT !.members[key] = Append(@, x)]
    ELSE [keys |-> Append(g.keys, key), members |-> (key :> <<x>>) @@ g.members]

\* lines 171-228: the loop over list_voices()
RECURSIVE GroupLoop(_, _)
GroupLoop(vs, g) ==
    IF vs = <<>> THEN g
    ELSE GroupLoop(Tail(vs),
                   SetDefaultAppend(g, LanguageKey(Head(vs)),
                                    <<Head(vs).voice_id, Head(vs).name>>))

\* lines 91-230, given what list_voices() returns; here the labels of a voice
\* are the list of the dict's items [key, value], in the dict's order
group_voices_by_language(voices) == GroupLoop(voices, NoGroups)

Item(k, v) == [key |-> k, value |-> v]

GroupLabelLists ==
    {<<>>,
     <<Item("language", FR)>>,
     <<Item("accent", EN), Item("language", FR)>>,
     <<Item("language", FR), Item("accent", EN)>>,
     <<Item("language", FRENCH)>>,
     <<Item("accent", <<"u", "s", " ", "e", "n">>)>>}

GroupNames == {<<"n">>, ENGLISH, FRENCH \o <<" ">> \o ENGLISH}

GroupsIdle ==
    /\ groups = NoGroups
    /\ gpc = "idle"

GroupsInit ==
    /\ \E n \in 0..MaxVoices : \E ls \in [1..n -> GroupLabelLists] :
          \E ns \in [1..n -> GroupNames] :
             directory = [i \in 1..n |-> [voice_id |-> <<"v", Digits[i + 1]>>,
                                          name |-> ns[i], labels |-> ls[i]]]
    /\ envKey \in BOOLEAN
    /\ language_label = <<>>
    /\ matches = <<>>
    /\ vpc = "idle"
    /\ groups = NoGroups
    /\ gpc = "call"

\* lines 28-32, 37: list_voices() raises when the key is missing
GroupVoicesFails ==
    /\ gpc = "call"
    /\ ~envKey
    /\ gpc' = "raised"
    /\ UNCHANGED <<groups, synthVars, keyVars, voiceVars, buildVars, analyzerVars>>

\* lines 91-230
GroupVoices ==
    /\ gpc = "call"
    /\ envKey
    /\ groups' = group_voices_by_language(directory)
    /\ gpc' = "done"
    /\ UNCHANGED <<synthVars, keyVars, voiceVars, buildVars, analyzerVars>>

-----------------------------------------------------------------------------
(* Specifications *)

\* one caller of synthesize_text, its calls in sequence
SeqInit == SynthIdle /\ KeyIdle /\ VoicesIdle /\ BuildIdle /\ AnalyzerIdle /\ GroupsIdle

SeqNext == synthesize_text(1, MaxCalls)

SpecSeq == SeqInit /\ [][SeqNext]_vars

\* several callers, each inside its own call
ConcNext == \E p \in Procs : synthesize_text(p, ConcCalls)

SpecConc == SeqInit /\ [][ConcNext]_vars

\* the cache entries of two requests
KeyPairInit == SynthIdle /\ KeyInit /\ VoicesIdle /\ BuildIdle /\ AnalyzerIdle /\ GroupsIdle

SpecKey == KeyPairInit /\ [][DeriveEntries]_vars

\* one strict lookup in a directory
VoicesNext == StrictLookupFails \/ StrictLookup

LookupInit == SynthIdle /\ KeyIdle /\ VoicesInit /\ BuildIdle /\ AnalyzerIdle /\ GroupsIdle

SpecVoices == LookupInit /\ [][VoicesNext]_vars

\* one build_simple_apkg
BuildNext ==
    \/ ResolveGiven
    \/ ResolveFails
    \/ ResolveListed
    \/ StartRow
    \/ TryVoice
    \/ AddNote
    \/ WritePackage

PackageInit == SynthIdle /\ KeyIdle /\ BuildInit /\ AnalyzerIdle /\ GroupsIdle

SpecBuild == PackageInit /\ [][BuildNext]_vars

\* the same, for a build that keeps running: the function is one thread of
\* straight-line code and loops, and each call it makes returns or raises
FailoverInit ==
    /\ PackageInit
    /\ envKey
    /\ \A i \in DOMAIN pairs : pairs[i].B \in {<<>>, <<"a">>}
    /\ \/ voice_ids # <<>>
       \/ tts_language = <<"F", "R">> /\ directory = <<Plain, Famous>>

SpecBuildFair == FailoverInit /\ [][BuildNext]_vars /\ WF_vars(BuildNext)

\* one fr_tokens
WordsInit == SynthIdle /\ KeyIdle /\ VoicesIdle /\ BuildIdle /\ TokensInit /\ GroupsIdle

SpecTokens == WordsInit /\ [][Tokenize]_vars

\* one analyze_sentence
SentenceInit == SynthIdle /\ KeyIdle /\ VoicesIdle /\ BuildIdle /\ AnalyzeInit /\ GroupsIdle

SpecAnalyze == SentenceInit /\ [][Analyze]_vars

\* one group_voices_by_language
GroupsNext == GroupVoicesFails \/ GroupVoices

GroupingInit == SynthIdle /\ KeyIdle /\ GroupsInit /\ BuildIdle /\ AnalyzerIdle

SpecGroups == GroupingInit /\ [][GroupsNext]_vars

-----------------------------------------------------------------------------
(* The synthesis cache: sequential calls (SpecSeq) *)

\* C1: when two calls in sequence have identical arguments and the first
\* returns, the second returns too, with the same filename and path, as a
\* cache hit, and the two calls together invoke the provider at most once.
C1_IdempotentCache ==
    \A p \in Procs : \A i \in 1..(Len(log[p]) - 1) :
        LET a == log[p][i]
            b == log[p][i + 1]
        IN  (a.req = b.req /\ a.outcome = "returned") =>
                /\ b.outcome = "returned"
                /\ b.filename = a.filename
                /\ b.path = a.path
                /\ b.hit
                /\ a.nconv + b.nconv <= 1

\* a miss that called the provider once, then the same request again
C1_Witness ==
    /\ Len(log[1]) = 2
    /\ log[1][1].req = log[1][2].req
    /\ log[1][1].outcome = "returned"
    /\ log[1][1].nconv = 1
    /\ log[1][2].outcome = "returned"
    /\ log[1][2].nconv = 0

IsFinal(n) == n.ext = "mp3"

FinalNames == {n \in DOMAIN fs.names : IsFinal(n)}

\* the complete byte streams the provider has returned
CompleteStreams == {BytesOf(streams[i]) : i \in DOMAIN streams}

\* C2: at every moment of a call, a file under a final name <digest>.mp3
\* holds the complete bytes of one provider stream; the open file that is
\* being written is never the file under a final name, and the rename comes
\* only after the whole stream has been consumed.
C2_NoPartialFinal ==
    /\ \A n \in FinalNames : Content(fs, n) \in CompleteStreams
    /\ \A p \in Procs : handle[p] # NoFile => \A n \in FinalNames : fs.names[n] # handle[p]
    /\ \A p \in Procs : pc[p] = "replace" => spos[p] = Len(stream[p])

\* a stream that raised after delivering bytes: they sit in the temporary
\* file, and the final name does not exist
C2_Witness ==
    \E i \in DOMAIN log[1] :
        LET c == log[1][i]
        IN  /\ c.outcome \in StreamErrors
            /\ c.nconv = 1
            /\ Exists(fs, TmpPath(c.path))
            /\ Content(fs, TmpPath(c.path)) # <<>>
            /\ Content(fs, TmpPath(c.path)) \notin CompleteStreams
            /\ ~Exists(fs, c.path)

-----------------------------------------------------------------------------
(* The synthesis cache: concurrent callers (SpecConc) *)

Started(p) == pc[p] # "idle" \/ log[p] # <<>>

CallPath(p) == IF pc[p] # "idle" THEN Fpath(req[p]) ELSE log[p][Len(log[p])].path

\* every caller has started, on a cache miss, and all derive one final path
AllMissedSamePath ==
    /\ \A p \in Procs : Started(p)
    /\ \A p \in Procs : \A i \in DOMAIN log[p] : ~log[p][i].hit
    /\ \A p, q \in Procs : CallPath(p) = CallPath(q)

\* C3: when concurrent calls for one final path all start on a cache miss,
\* the final path, whenever it exists, holds exactly one complete provider
\* stream.
C3_ConcurrentFinalIsWhole ==
    AllMissedSamePath => \A n \in FinalNames : Content(fs, n) \in CompleteStreams

ProviderFailed(c) == c.outcome \in ProviderErrors \cup StreamErrors \cup {"ElevenLabsError"}

\* C4: two calls for one final path that both miss and whose provider calls
\* both succeed both end by returning the artifact.
C4_ConcurrentWritersReturn ==
    \A p, q \in Procs :
        (/\ p # q
         /\ pc[p] = "idle" /\ log[p] # <<>>
         /\ pc[q] = "idle" /\ log[q] # <<>>
         /\ AllMissedSamePath
         /\ ~ProviderFailed(log[p][1]) /\ ~ProviderFailed(log[q][1]))
        => log[p][1].outcome = "returned" /\ log[q][1].outcome = "returned"

-----------------------------------------------------------------------------
(* Cache keys (SpecKey) *)

\* C5, as claimed: two requests have the same cache entry exactly when all
\* their field values are identical.
C5_KeyIdentity ==
    keyB # NoReq => ((keyA = keyB) <=> (entA = entB))

SeparatorFree(r) ==
    US \notin Range(r.text) \cup Range(r.voice_id) \cup Range(r.model_id)
                \cup Range(r.output_format)

InProviderRange(x) == ClampLo <= x /\ x <= ClampHi

\* the speaking rate the provider supports: below 0.7 is 0.7, above 1.2 is 1.2
Supported(x) == IF x < ClampLo THEN ClampLo ELSE IF x > ClampHi THEN ClampHi ELSE x

SameButRate(a, b) == [a EXCEPT !.speaking_rate = b.speaking_rate] = b

\* C5, amended: for requests whose strings hold no U+241F, the cache entry
\* is the same exactly when all fields other than speaking_rate are
\* identical and the speaking rates are equal once clamped to [0.7, 1.2].
C5_KeyIdentityClamped ==
    (keyB # NoReq /\ SeparatorFree(keyA) /\ SeparatorFree(keyB)) =>
        ((entA = entB) <=>
            (SameButRate(keyA, keyB)
             /\ Supported(keyA.speaking_rate) = Supported(keyB.speaking_rate)))

\* both directions occur: distinct rates above the range share an entry's
\* rate with 1.2, and a difference in the text alone separates the entries
C5_Witness ==
    /\ keyB # NoReq
    /\ SeparatorFree(keyA) /\ SeparatorFree(keyB)
    /\ keyA.text # keyB.text
    /\ keyA.speaking_rate = ClampHi /\ keyB.speaking_rate = ClampHi + 1
    /\ [keyA EXCEPT !.text = keyB.text, !.speaking_rate = keyB.speaking_rate] = keyB
    /\ entA # entB

\* C6: two requests that differ only in speaking_rate, both rates inside
\* [0.7, 1.2], have different canonical key strings and different file names.
C6_RateDistinct ==
    (/\ keyB # NoReq
     /\ SameButRate(keyA, keyB)
     /\ keyA.speaking_rate # keyB.speaking_rate
     /\ InProviderRange(keyA.speaking_rate)
     /\ InProviderRange(keyB.speaking_rate))
    => entA.base # entB.base /\ entA # entB

C6_Witness ==
    /\ keyB # NoReq
    /\ SameButRate(keyA, keyB)
    /\ keyA.speaking_rate = ClampLo
    /\ keyB.speaking_rate = ClampHi
    /\ entA # entB

-----------------------------------------------------------------------------
(* Voice failover in build_simple_apkg (SpecBuild) *)

\* C7: a further voice is tried only after a 'voice not permitted'
\* rejection of the voice before it.
C7_SelectiveFailover ==
    \A k \in 1..(Len(tried) - 1) : tried[k].outcome = "voice_not_permitted"

\* every attempt of a row with attempts failed
Exhausted(t) == t # <<>> /\ \A k \in DOMAIN t : t[k].outcome # "returned"

\* C8: a row whose candidate voices all failed does not end as a note with
\* an empty audio reference, and the build does not end in success.
C8_ExhaustionIsTerminal ==
    /\ \A i \in DOMAIN notes : Exhausted(rowlog[i]) => notes[i].TargetAudio # <<>>
    /\ bpc = "done" => \A i \in DOMAIN rowlog : ~Exhausted(rowlog[i])

\* C9: synthesis failures never abort the batch: an exception leaves only
\* before the first row, the deck holds one note per processed pair in input
\* order, the loops can always go on (a voice is left to try and the call
\* has an outcome; a row or the package is next), and the package that is
\* written has a note for every pair.
C9_BatchContinues ==
    /\ raised # "" => (bpc = "raised" /\ idx = 0 /\ tried = <<>> /\ rowlog = <<>>)
    /\ bpc = "raised" => (idx = 0 /\ tried = <<>>)
    /\ Len(notes) = idx
    /\ idx <= Len(pairs)
    /\ \A i \in DOMAIN notes :
          /\ notes[i].UserLanguage = pairs[i].A
          /\ notes[i].TargetLanguage = pairs[i].B
    /\ bpc = "row" => ENABLED (StartRow \/ WritePackage)
    /\ bpc = "try" =>
          /\ cpos < Len(candidate_voices)
          /\ SynthResults(fs, DefaultRequest(pairs[idx + 1].B, candidate_voices[cpos + 1],
                                             DefaultRate), envKey) # {}
    /\ bpc = "note" => ENABLED AddNote
    /\ bpc = "done" => Len(notes) = Len(pairs)

\* the first of two rows failed with every voice, the second got its audio
C9_Witness ==
    /\ bpc = "done"
    /\ Len(pairs) = 2
    /\ Len(rowlog[1]) = 2
    /\ Exhausted(rowlog[1])
    /\ notes[1].TargetAudio = <<>>
    /\ notes[2].TargetAudio # <<>>

-----------------------------------------------------------------------------
(* Strict voice lookup (SpecVoices) *)

\* the label as compared: trimmed, case folded
Wanted == Lower(Strip(language_label))

HasLanguage(v) == Strip(Get(v.labels, "language")) # <<>>

LanguageIs(v) == Lower(Strip(Get(v.labels, "language"))) = Wanted

Mentions(v) == \E k \in DOMAIN v.labels : Contains(Lower(v.labels[k]), Wanted)

Qualifies(v) ==
    \/ HasLanguage(v) /\ LanguageIs(v)
    \/ ~HasLanguage(v) /\ Mentions(v)

\* C10: the strict lookup returns, in directory order, exactly the
\* (id, name) of the voices whose non-empty language label equals the label,
\* or that have no language label and mention the label in some label value;
\* a voice with another language is never returned, and the result is empty
\* when no voice qualifies.
C10_StrictLookup ==
    vpc = "done" =>
        LET q == SelectSeq(directory, Qualifies)
        IN  /\ matches = [i \in DOMAIN q |-> <<q[i].voice_id, q[i].name>>]
            /\ \A i \in DOMAIN directory :
                  (HasLanguage(directory[i]) /\ ~LanguageIs(directory[i]))
                  => <<directory[i].voice_id, directory[i].name>> \notin Range(matches)
            /\ (\A i \in DOMAIN directory : ~Qualifies(directory[i])) => matches = <<>>

\* a voice of another language that mentions the label is left out, after a
\* voice that matches
C10_Witness ==
    /\ vpc = "done"
    /\ Wanted # <<>>
    /\ Len(directory) = 2
    /\ HasLanguage(directory[1]) /\ LanguageIs(directory[1])
    /\ HasLanguage(directory[2]) /\ ~LanguageIs(directory[2]) /\ Mentions(directory[2])
    /\ matches = <<<<directory[1].voice_id, directory[1].name>>>>

-----------------------------------------------------------------------------
(* Voice resolution and configuration errors in build_simple_apkg (SpecBuild) *)

\* every attempt made so far: those of the finished rows and of the current one
Attempts == UNION {Range(rowlog[i]) : i \in DOMAIN rowlog} \cup Range(tried)

\* C11: when the caller names no voice_ids and the strict lookup for
\* tts_language finds no voice, no voice is ever used to synthesize a row.
C11_EmptyStrictMeansNoVoice ==
    (/\ bpc \notin {"idle", "resolve"}
     /\ voice_ids = <<>>
     /\ tts_language \notin DOMAIN VOICE_WHITELIST_PREFIXES
     /\ voices_for_language_strict(directory, tts_language) = <<>>)
    => Attempts = {}

\* C12: without the API key, a synthesis that needs the provider ends
\* build_simple_apkg with the configuration error: the error is the last
\* attempt of its row, no further voice is tried, no note is made of the row
\* and no deck is returned.
C12_ConfigErrorSurfaced ==
    /\ \A i \in DOMAIN rowlog : \A k \in DOMAIN rowlog[i] :
          rowlog[i][k].outcome # "ElevenLabsError"
    /\ \A k \in DOMAIN tried :
          tried[k].outcome = "ElevenLabsError"
          => (k = Len(tried) /\ bpc = "raised" /\ raised = "ElevenLabsError")

-----------------------------------------------------------------------------
(* Sentence analysis (SpecAnalyze) *)

Analyzed == apc = "analyzed"

\* the score wordfreq (or its fallback) gave for a row, before rounding
RawScore(r) == IF WORD_FREQ_AVAILABLE THEN oracle[r.norm] ELSE 0

Bands == {"A1 (ultra common)", "A2 (very common)", "B1 (common)", "B2-C1 (uncommon)",
          "C1-C2 (rare)"}

\* C13: every score has exactly one of the five bands: A1 iff z >= 5.5,
\* A2 iff 4.5 <= z < 5.5, B1 iff 3.5 <= z < 4.5, B2-C1 iff 2.5 <= z < 3.5,
\* and the rare band iff z < 2.5, the score 0 included; a threshold belongs
\* to the higher band.
C13_BandPartition ==
    Analyzed =>
        \A i \in DOMAIN summary.tokens :
            LET r == summary.tokens[i]
                z == RawScore(r)
            IN  /\ r.band \in Bands
                /\ r.band = "A1 (ultra common)" <=> z >= 55000
                /\ r.band = "A2 (very common)" <=> (45000 <= z /\ z < 55000)
                /\ r.band = "B1 (common)" <=> (35000 <= z /\ z < 45000)
                /\ r.band = "B2-C1 (uncommon)" <=> (25000 <= z /\ z < 35000)
                /\ r.band = "C1-C2 (rare)" <=> z < 25000
                /\ z = 0 => r.band = "C1-C2 (rare)"

\* a sentence with a word exactly on the threshold 5.5 (band A1) and an unseen
\* word (score 0, rare band)
C13_Witness ==
    /\ Analyzed
    /\ WORD_FREQ_AVAILABLE
    /\ \E i, j \in DOMAIN summary.tokens :
          /\ RawScore(summary.tokens[i]) = 55000
          /\ summary.tokens[i].band = "A1 (ultra common)"
          /\ RawScore(summary.tokens[j]) = 0
          /\ summary.tokens[j].band = "C1-C2 (rare)"

NumRare == Cardinality({i \in DOMAIN summary.tokens : summary.tokens[i].is_rare})

NumKnown == Cardinality({i \in DOMAIN summary.tokens : summary.tokens[i].is_known})

\* share is count / n to 3 decimals: a multiple of 0.001 that is not farther
\* than 0.0005 from count / n
IsShareOf(share, count, n) ==
    /\ share % 10 = 0
    /\ 2 * (share * n - 10000 * count) <= 10 * n
    /\ 2 * (10000 * count - share * n) <= 10 * n

\* C14: share_rare_words and known_word_coverage lie in [0, 1]; with n >= 1
\* tokens they are the number of rare rows / n and of known rows / n, to 3
\* decimals; num_tokens is the length of the tokens list.
C14_Shares ==
    Analyzed =>
        LET st == summary.stats
            n  == Len(summary.tokens)
        IN  /\ 0 <= st.share_rare_words /\ st.share_rare_words <= 10000
            /\ 0 <= st.known_word_coverage /\ st.known_word_coverage <= 10000
            /\ n >= 1 => /\ IsShareOf(st.share_rare_words, NumRare, n)
                         /\ IsShareOf(st.known_word_coverage, NumKnown, n)
            /\ st.num_tokens = n
            /\ n = Len(toks)

\* three tokens, one of them rare and two known: 0.333 and 0.667
C14_Witness ==
    /\ Analyzed
    /\ Len(summary.tokens) = 3
    /\ NumRare = 1
    /\ NumKnown = 2
    /\ summary.stats.share_rare_words = 3330
    /\ summary.stats.known_word_coverage = 6670

\* what a candidate entry keeps of a row
Entry(r) == [token |-> r.token, zipf |-> r.zipf, band |-> r.band]

\* the row is unknown and its commonality (the row's zipf) is inside the
\* useful band, both ends included
Useful(r) == ~r.is_known /\ useful_min <= r.zipf /\ r.zipf <= useful_max

Occurrences(s, x) == Cardinality({i \in DOMAIN s : s[i] = x})

\* C15: a token occurrence is a flashcard candidate iff it is not known and
\* useful_min <= commonality <= useful_max: the candidates are, occurrence
\* for occurrence, the entries of such rows; a known row and a row outside
\* the band are never candidates, every candidate is the entry of a row, and
\* there are no more candidates than tokens.
C15_CandidateSelection ==
    Analyzed =>
        LET rows  == summary.tokens
            cands == summary.flashcard_candidates
            good  == SelectSeq(rows, Useful)
            ofGood == [i \in DOMAIN good |-> Entry(good[i])]
        IN  /\ \A i \in DOMAIN cands : Occurrences(cands, cands[i]) = Occurrences(ofGood, cands[i])
            /\ \A i \in DOMAIN ofGood : Occurrences(cands, ofGood[i]) = Occurrences(ofGood, ofGood[i])
            /\ Len(cands) = Len(good)
            /\ \A i \in DOMAIN rows :
                  (rows[i].is_known \/ rows[i].zipf > useful_max \/ rows[i].zipf < useful_min)
                  => (\/ Entry(rows[i]) \notin Range(cands)
                      \/ \E j \in DOMAIN rows : Entry(rows[j]) = Entry(rows[i]) /\ Useful(rows[j]))
            /\ \A i \in DOMAIN cands : \E j \in DOMAIN rows : cands[i] = Entry(rows[j])
            /\ Len(cands) <= summary.stats.num_tokens

\* default band [3.0, 4.8]: two occurrences of an unknown word at 3.5 are both
\* candidates, a known word at 3.5 is not
C15_Witness ==
    /\ Analyzed
    /\ useful_min = 30000 /\ useful_max = 48000
    /\ Len(summary.tokens) = 3
    /\ Len(summary.flashcard_candidates) = 2
    /\ \E i, j, k \in DOMAIN summary.tokens :
          /\ i # j
          /\ ~summary.tokens[i].is_known /\ summary.tokens[i].zipf = 35000
          /\ ~summary.tokens[j].is_known /\ summary.tokens[j].zipf = 35000
          /\ summary.tokens[k].is_known /\ summary.tokens[k].zipf = 35000
          /\ Entry(summary.tokens[i]) \in Range(summary.flashcard_candidates)
          /\ Entry(summary.tokens[j]) \in Range(summary.flashcard_candidates)
          /\ Entry(summary.tokens[k]) \notin Range(summary.flashcard_candidates)

\* C16: the candidates are ordered easiest first, the easiest being the most
\* common word: each candidate's commonality is at least that of every
\* candidate after it.
C16_EasiestFirst ==
    Analyzed =>
        \A i, j \in DOMAIN summary.flashcard_candidates :
            i < j => summary.flashcard_candidates[i].zipf >= summary.flashcard_candidates[j].zipf

\* C17: for a text that yields no token, analyze_sentence completes and
\* returns num_tokens 0, no rows, mean and median 0.0, both shares 0, no
\* candidate, and None for the hardest and the easiest word.
C17_EmptySentence ==
    /\ (apc = "analyze" /\ fr_tokens(sentence) = <<>>) => ENABLED Analyze
    /\ (Analyzed /\ toks = <<>>) =>
          /\ summary.stats.num_tokens = 0
          /\ summary.tokens = <<>>
          /\ summary.stats.mean_zipf = 0
          /\ summary.stats.median_zipf = 0
          /\ summary.stats.share_rare_words = 0
          /\ summary.stats.known_word_coverage = 0
          /\ summary.flashcard_candidates = <<>>
          /\ summary.hardest_word = None
          /\ summary.easiest_word = None

\* a sentence of a digit and a full stop has been analysed
C17_Witness ==
    /\ Analyzed
    /\ sentence = <<"1", ".">>
    /\ toks = <<>>
    /\ summary.stats.num_tokens = 0
    /\ summary.hardest_word = None

\* C18: when the import of wordfreq failed, analyze_sentence still completes
\* (the call ends with a summary that has a row for every token); every row has commonality 0.0 and the rarest band; with rare_threshold > 0
\* every row is rare and the share of rare words of a non-empty sentence is
\* 1; with useful_min > 0 there is no candidate.
C18_DegradedAnalysis ==
    (Analyzed /\ ~WORD_FREQ_AVAILABLE) =>
          /\ summary # None
          /\ Len(summary.tokens) = Len(toks)
          /\ \A i \in DOMAIN summary.tokens :
                /\ summary.tokens[i].zipf = 0
                /\ summary.tokens[i].band = "C1-C2 (rare)"
                /\ rare_threshold > 0 => summary.tokens[i].is_rare
          /\ (rare_threshold > 0 /\ summary.tokens # <<>>)
                => summary.stats.share_rare_words = 10000
          /\ useful_min > 0 => summary.flashcard_candidates = <<>>

\* without wordfreq, a sentence of words that wordfreq would have scored 5.0
\* and 3.5 is analysed under the default thresholds
C18_Witness ==
    /\ Analyzed
    /\ ~WORD_FREQ_AVAILABLE
    /\ rare_threshold = 30000 /\ useful_min = 30000
    /\ Len(summary.tokens) = 2
    /\ {oracle[summary.tokens[i].norm] : i \in DOMAIN summary.tokens} = {50000, 35000}
    /\ summary.stats.share_rare_words = 10000
    /\ summary.flashcard_candidates = <<>>

-----------------------------------------------------------------------------
(* The tokenizer (SpecTokens) *)

\* the letters of the target language among the characters of the model,
\* accented letters and the ligature included
Letters == {"A", "P", "a", "b", "i", "j", "r", "s", "t", "a_grave", "e_acute", "oe"}

IsLetter(c) == c \in Letters

Apostrophes(t) == Cardinality({i \in DOMAIN t : t[i] = "'"})

\* letters with at most one apostrophe, which is neither first nor last
WellFormedToken(t) ==
    /\ t # <<>>
    /\ \A i \in DOMAIN t : IsLetter(t[i]) \/ t[i] = "'"
    /\ Apostrophes(t) <= 1
    /\ IsLetter(t[1]) /\ IsLetter(t[Len(t)])

\* the token at [start, end] cannot be extended by a letter on either side,
\* nor by an apostrophe and a letter when it has no apostrophe yet
MaximalAt(text, m) ==
    /\ m.start = 1 \/ ~IsLetter(text[m.start - 1])
    /\ m.end = Len(text) \/ ~IsLetter(text[m.end + 1])
    /\ Apostrophes(SubSeq(text, m.start, m.end)) = 0
          => ~(m.end + 2 <= Len(text) /\ text[m.end + 1] = "'" /\ IsLetter(text[m.end + 2]))

\* C19: fr_tokens returns, from left to right, non-overlapping tokens, each a
\* maximal run of letters optionally followed by one apostrophe and a further
\* maximal run of letters; no token holds a digit, white space or
\* punctuation, begins or ends with an apostrophe, or has two apostrophes;
\* every letter of the text is in exactly one token; a text without letters
\* gives the empty list; "j'ai ete a Paris" (with its accents) gives the 4
\* tokens j'ai, ete, a, Paris.
C19_TokenStructure ==
    apc = "tokenized" =>
        /\ Len(toks) = Len(spans)
        /\ \A k \in DOMAIN spans :
              /\ 1 <= spans[k].start /\ spans[k].start <= spans[k].end
              /\ spans[k].end <= Len(sentence)
              /\ toks[k] = SubSeq(sentence, spans[k].start, spans[k].end)
              /\ WellFormedToken(toks[k])
              /\ MaximalAt(sentence, spans[k])
              /\ k < Len(spans) => spans[k].end < spans[k + 1].start
        /\ \A i \in DOMAIN sentence :
              IsLetter(sentence[i])
              => Cardinality({k \in DOMAIN spans : spans[k].start <= i /\ i <= spans[k].end}) = 1
        /\ (\A i \in DOMAIN sentence : ~IsLetter(sentence[i])) => toks = <<>>
        /\ sentence = Elision =>
              toks = <<SubSeq(Elision, 1, 4), SubSeq(Elision, 6, 8), SubSeq(Elision, 10, 10),
                       SubSeq(Elision, 12, 16)>>

-----------------------------------------------------------------------------
(* Grouping voices by language (SpecGroups) *)

\* the value of label k of voice v, <<>> when it has none
LabelOf(v, k) ==
    IF \E i \in DOMAIN v.labels : v.labels[i].key = k
    THEN v.labels[CHOOSE i \in DOMAIN v.labels : v.labels[i].key = k].value
    ELSE <<>>

\* the spelling of each language name
Spelling == ("French" :> FRENCH) @@ ("English" :> ENGLISH) @@ ("Italian" :> <<"i", "t", "a", "l", "i", "a", "n">>)

\* rule 1: the language label is a known code or a known language name
ByLanguageLabel(v) ==
    LET l == Lower(Strip(LabelOf(v, "language")))
    IN  {lang_code_to_name[c] : c \in {d \in DOMAIN lang_code_to_name : d = l}}
        \cup {n \in DOMAIN Spelling : Spelling[n] = l}

\* rule 2: a known code is a word of some label value
ByCodeWord(v) ==
    {lang_code_to_name[c] : c \in
        {d \in DOMAIN lang_code_to_name :
            \E i \in DOMAIN v.labels :
                LET s == Lower(v.labels[i].value)
                IN  \E k \in DOMAIN s : TwoLetterAt(s, k) /\ SubSeq(s, k, k + 1) = d}}

\* rule 3: the first keyword check, in declaration order, that the name meets
ByNameKeyword(v) ==
    LET hits == {k \in DOMAIN NameChecks :
                    \E ind \in NameChecks[k].indicators : Contains(Lower(v.name), ind)}
    IN  {lang_code_to_name[NameChecks[k].code] : k \in {h \in hits : \A g \in hits : h <= g}}

ExpectedKeys(v) ==
    IF ByLanguageLabel(v) # {} THEN ByLanguageLabel(v)
    ELSE IF ByCodeWord(v) # {} THEN ByCodeWord(v)
    ELSE IF ByNameKeyword(v) # {} THEN ByNameKeyword(v)
    ELSE {"Unknown"}

\* C20: every voice is grouped under the key of the first rule that applies:
\* its explicit language label when that is a known code or language name,
\* whatever its other labels and their order; else a known 2-letter code that
\* is a word of some label value; else the first language keyword met by its
\* name, in declaration order; else "Unknown".
C20_LanguageKeyPriority ==
    gpc = "done" =>
        \A i \in DOMAIN directory :
            \E k \in ExpectedKeys(directory[i]) :
                /\ k \in DOMAIN groups.members
                /\ <<directory[i].voice_id, directory[i].name>> \in Range(groups.members[k])

-----------------------------------------------------------------------------
(* The synthesis cache over a sequence of calls (SpecSeq) *)

\* every file under a final name stays, with the content it has
FinalFilesKept ==
    \A n \in FinalNames : Exists(fs', n) /\ Content(fs', n) = Content(fs, n)

\* C21: over a sequence of synthesize_text calls into one out_dir, whatever
\* their requests and outcomes, no step of any call deletes a file that
\* exists under a final name <digest>.mp3 or changes its content.
C21_CacheOnlyGrows == [][FinalFilesKept]_vars

\* an artifact was created by the first call, and a second call with another
\* key missed, contacted the provider and ended (returning or raising)
C21_Witness ==
    /\ Len(log[1]) = 2
    /\ log[1][1].outcome = "returned"
    /\ ~log[1][1].hit
    /\ log[1][2].path # log[1][1].path
    /\ log[1][2].nconv = 1
    /\ Exists(fs, log[1][1].path)

-----------------------------------------------------------------------------
(* The deck and the voice loop of build_simple_apkg (SpecBuild) *)

\* the attempts of row i that returned an artifact
Successes(i) == {k \in DOMAIN rowlog[i] : rowlog[i][k].outcome = "returned"}

\* the request build_simple_apkg makes for row i with voice v
RowRequest(i, v) == DefaultRequest(pairs[i].B, v, DefaultRate)

\* every row has target text and a candidate voice whose synthesis succeeded
AllRowsSynthesized ==
    /\ bpc = "done"
    /\ Len(rowlog) = Len(pairs)
    /\ \A i \in DOMAIN pairs : pairs[i].B # <<>> /\ Successes(i) # {}

\* C22: when every one of the n rows has non-empty target text and a
\* candidate voice for which synthesis succeeds, the deck has exactly n notes
\* in input order; each TargetAudio field is the non-empty reference
\* [sound:<filename>] of the artifact synthesized for the row's target text;
\* the artifact's path is in media_files; and rows with different target
\* text reference different file names.
C22_DeckCompleteness ==
    AllRowsSynthesized =>
        /\ Len(notes) = Len(pairs)
        /\ \A i \in DOMAIN pairs :
              /\ notes[i].UserLanguage = pairs[i].A
              /\ notes[i].TargetLanguage = pairs[i].B
              /\ notes[i].TargetAudio # <<>>
              /\ \E k \in Successes(i) :
                    LET r == RowRequest(i, rowlog[i][k].voice)
                    IN  /\ notes[i].TargetAudio = <<"[sound:", Fname(r), "]">>
                        /\ Fpath(r) \in Range(media_files)
                        /\ Exists(fs, Fpath(r))
        /\ \A i, j \in DOMAIN pairs :
              pairs[i].B # pairs[j].B => notes[i].TargetAudio # notes[j].TargetAudio

\* two rows with different text; the first needed its second candidate
C22_Witness ==
    /\ AllRowsSynthesized
    /\ Len(pairs) = MaxPairs
    /\ pairs[1].B # pairs[2].B
    /\ Len(rowlog[1]) = 2
    /\ rowlog[1][1].outcome # "returned"

\* the voices of a sequence of attempts
VoicesOf(t) == [k \in DOMAIN t |-> t[k].voice]

\* the attempts of one row stay within the candidates and end at a success
RowBounded(t) ==
    /\ Len(t) <= Len(resolved_voice_ids)
    /\ \A v \in Range(VoicesOf(t)) :
          Occurrences(VoicesOf(t), v) <= Occurrences(resolved_voice_ids, v)
    /\ \A k \in DOMAIN t : t[k].outcome = "returned" => k = Len(t)

FailoverBounded ==
    /\ RowBounded(tried)
    /\ \A i \in DOMAIN rowlog :
          /\ RowBounded(rowlog[i])
          /\ (pairs[i].B = <<>> \/ resolved_voice_ids = <<>>) => rowlog[i] = <<>>
    /\ bpc = "try" => Len(tried) = cpos /\ cpos < Len(candidate_voices)

-----------------------------------------------------------------------------
(* The hardest and the easiest word (SpecAnalyze) *)

\* r is the earliest row of rows whose zipf is the least (sign 1) or the
\* greatest (sign -1)
EarliestExtreme(rows, r, sign) ==
    \E i \in DOMAIN rows :
        /\ rows[i] = r
        /\ \A j \in DOMAIN rows : sign * r.zipf <= sign * rows[j].zipf
        /\ \A j \in 1..(i - 1) : sign * r.zipf < sign * rows[j].zipf

\* C24: for a sentence with at least one token, hardest_word and
\* easiest_word are the earliest rows with the minimum and the maximum
\* commonality: hardest.zipf <= zipf of every token <= easiest.zipf, and
\* mean_zipf and median_zipf lie between hardest.zipf and easiest.zipf.
C24_HardestEasiest ==
    (Analyzed /\ summary.tokens # <<>>) =>
        LET rows == summary.tokens
            h == summary.hardest_word
            e == summary.easiest_word
        IN  /\ EarliestExtreme(rows, h, 1)
            /\ EarliestExtreme(rows, e, -1)
            /\ h.zipf <= summary.stats.mean_zipf /\ summary.stats.mean_zipf <= e.zipf
            /\ h.zipf <= summary.stats.median_zipf /\ summary.stats.median_zipf <= e.zipf

\* "a A b": the first two tokens tie for the minimum under different
\* spellings, the third is the maximum, and the mean lies strictly between
C24_Witness ==
    /\ Analyzed
    /\ Len(summary.tokens) = 3
    /\ summary.tokens[1].zipf = summary.tokens[2].zipf
    /\ summary.tokens[1].token # summary.tokens[2].token
    /\ summary.tokens[3].zipf > summary.tokens[1].zipf
    /\ summary.hardest_word.token = summary.tokens[1].token
    /\ summary.easiest_word = summary.tokens[3]
    /\ summary.hardest_word.zipf < summary.stats.mean_zipf
    /\ summary.stats.mean_zipf < summary.easiest_word.zipf

-----------------------------------------------------------------------------
(* The speaking rate in the key and in the provider call (SpecSeq) *)

\* min(1.2, max(0.7, speaking_rate))
Clamp(rate) == Min(ClampHi, Max(ClampLo, rate))

\* the digest of request r with x in the place of the speaking rate
KeyWithRate(r, x) ==
    _hash(r.text, r.voice_id, r.model_id, x, r.stability, r.similarity_boost, r.style,
          r.use_speaker_boost, r.output_format)

\* the file name of every call that has ended is keyed by the clamped rate,
\* and by the raw rate only when the two are equal
KeyedByClampedRate ==
    \A i \in DOMAIN log[1] :
        LET c == log[1][i]
        IN  /\ c.filename.base = KeyWithRate(c.req, Clamp(c.req.speaking_rate))
            /\ c.req.speaking_rate # Clamp(c.req.speaking_rate) =>
                   c.filename.base # KeyWithRate(c.req, c.req.speaking_rate)

\* a step that calls the provider passes the clamped rate of the call in
\* progress as the speed, the same value its key holds
SpeedIsKeyedRate ==
    Len(sent') > Len(sent) =>
        LET r == req[1]
            speed == sent'[Len(sent')].voice_settings.speed
        IN  /\ Len(sent') = Len(sent) + 1
            /\ speed = Clamp(r.speaking_rate)
            /\ Fname(r).base = KeyWithRate(r, speed)
            /\ ClampLo <= speed /\ speed <= ClampHi
            /\ r.speaking_rate # Clamp(r.speaking_rate) => speed # r.speaking_rate

\* C25: for every requested speaking_rate, the speed passed to the provider
\* in voice_settings equals the value used in the cache key and equals
\* min(1.2, max(0.7, speaking_rate)), so it lies in [0.7, 1.2]; the raw
\* unclamped rate is neither sent to the provider nor used in the key.
C25_ClampedRateEverywhere == []KeyedByClampedRate /\ [][SpeedIsKeyedRate]_vars

\* the provider was called for a rate below the range and for one above it
C25_Witness ==
    /\ Len(sent) = 2
    /\ Len(log[1]) = 2
    /\ log[1][1].req.speaking_rate < ClampLo
    /\ log[1][2].req.speaking_rate > ClampHi
    /\ sent[1].voice_settings.speed = ClampLo
    /\ sent[2].voice_settings.speed = ClampHi

-----------------------------------------------------------------------------
(* Credentials and failures of synthesize_text (SpecSeq) *)

\* the call that the step ends, when it ends one
Ended == log'[1][Len(log'[1])]

EndsCall == Len(log'[1]) > Len(log[1])

\* a call that starts when its final file exists ends in the same step with
\* the artifact, whatever the credential; the credential error ends only a
\* call that found no file and no key
HitNeedsNoKey ==
    /\ (pc[1] = "idle" /\ Exists(fs, Fpath(req'[1]))) =>
          /\ EndsCall
          /\ Ended.outcome = "returned"
          /\ Ended.req = req'[1]
          /\ Ended.path = Fpath(req'[1])
          /\ sent' = sent
          /\ fs' = fs
    /\ (EndsCall /\ Ended.outcome = "ElevenLabsError") =>
          /\ ~Exists(fs, Ended.path)
          /\ ~apiKey[1]
          /\ sent' = sent

\* C26: when the final file of a request exists, synthesize_text returns the
\* artifact without constructing the provider client, also when
\* ELEVENLABS_API_KEY is absent; the missing-credential error is raised only
\* on a cache miss.
C26_HitNeedsNoCredential == [][HitNeedsNoKey]_vars

\* a call with the key created the file; the next call, without the key,
\* returned it
C26_Witness ==
    /\ pc[1] = "idle"
    /\ Len(log[1]) = 2
    /\ log[1][1].outcome = "returned"
    /\ log[1][1].nconv = 1
    /\ log[1][2].path = log[1][1].path
    /\ log[1][2].outcome = "returned"
    /\ ~apiKey[1]

Failures == ProviderErrors \cup StreamErrors

\* C27: when the provider call or the byte stream raises on a cache miss,
\* the error reaches the caller, the call leaves no file under the final
\* name, and the next call with the same request is a miss again that
\* contacts the provider (given a key); what is returned is always a final
\* name that exists, never the temporary file.
C27_FailureLeavesNoArtifact ==
    \A i \in DOMAIN log[1] :
        LET c == log[1][i]
        IN  /\ c.outcome \in Failures =>
                  /\ ~c.hit
                  /\ c.nconv = 1
                  /\ (i = Len(log[1]) /\ pc[1] = "idle") => ~Exists(fs, c.path)
                  /\ (i < Len(log[1]) /\ log[1][i + 1].req = c.req) =>
                        /\ ~log[1][i + 1].hit
                        /\ log[1][i + 1].outcome # "ElevenLabsError" => log[1][i + 1].nconv = 1
            /\ c.outcome = "returned" =>
                  /\ IsFinal(c.path)
                  /\ c.path # TmpPath(c.path)
                  /\ Exists(fs, c.path)

\* the stream raised and left a temporary file; the same request then
\* missed, called the provider again and returned
C27_Witness ==
    /\ Len(log[1]) = 2
    /\ log[1][1].outcome \in StreamErrors
    /\ log[1][2].req = log[1][1].req
    /\ log[1][2].outcome = "returned"
    /\ log[1][2].nconv = 1
    /\ Len(sent) = 2

-----------------------------------------------------------------------------
(* Rare words and flashcard candidates (SpecAnalyze) *)

\* C28: when useful_min >= rare_threshold (as with the defaults, both 3.0),
\* no token row with is_rare = true appears among the flashcard candidates,
\* whatever the sentence and the oracle's scores.
C28_RareNeverCandidate ==
    (Analyzed /\ useful_min >= rare_threshold) =>
        \A i \in DOMAIN summary.tokens :
            summary.tokens[i].is_rare =>
                Entry(summary.tokens[i]) \notin Range(summary.flashcard_candidates)

-----------------------------------------------------------------------------
(* The candidates of build_simple_apkg (SpecBuild) *)

AttemptedVoices == {a.voice : a \in Attempts}

\* the directory gives the voice the category "famous", in any case
IsFamous(id) ==
    \E i \in DOMAIN directory :
        /\ directory[i].voice_id = id
        /\ Lower(Get(directory[i].labels, "category")) = <<"famous">>

\* the id starts with a prefix listed for tts_language
Prefixed(id) == \E p \in VOICE_WHITELIST_PREFIXES[tts_language] : StartsWith(id, p)

Resolved == bpc \notin {"idle", "resolve", "raised"}

\* the whitelist admits no other voice, and the caller's voice_ids are
\* taken as they are
WhitelistAndGivenIds ==
    /\ (voice_ids = <<>> /\ tts_language \in DOMAIN VOICE_WHITELIST_PREFIXES) =>
          /\ \A v \in AttemptedVoices : Prefixed(v)
          /\ Resolved => \A k \in DOMAIN resolved_voice_ids : Prefixed(resolved_voice_ids[k])
    /\ (voice_ids # <<>> /\ Resolved) =>
          /\ resolved_voice_ids = voice_ids
          /\ AttemptedVoices \subseteq Range(voice_ids)
          /\ bpc = "try" => candidate_voices \in Shuffles(voice_ids)

-----------------------------------------------------------------------------
(* The groups as a partition of the directory (SpecGroups) *)

GroupKeys == {lang_code_to_name[c] : c \in DOMAIN lang_code_to_name} \cup {"Unknown"}

\* the voices of the directory that f sends to key k, as (voice_id, name),
\* in directory order
Part(f, k) ==
    LET idxs == SelectSeq([i \in DOMAIN directory |-> i], LAMBDA i : f[i] = k)
    IN  [j \in DOMAIN idxs |-> <<directory[idxs[j]].voice_id, directory[idxs[j]].name>>]

\* C30: the groups are a partition of the voice list: every voice is in
\* exactly one group, whose key is a language name or "Unknown"; no voice
\* is dropped or duplicated; no group is empty; and each group lists its
\* voices in directory order.
C30_GroupsPartition ==
    gpc = "done" =>
        /\ DOMAIN groups.members = Range(groups.keys)
        /\ Cardinality(Range(groups.keys)) = Len(groups.keys)
        /\ Range(groups.keys) \subseteq GroupKeys
        /\ \A k \in Range(groups.keys) : groups.members[k] # <<>>
        /\ \E f \in [DOMAIN directory -> Range(groups.keys)] :
              \A k \in Range(groups.keys) : groups.members[k] = Part(f, k)

\* two voices of one language in one group, in directory order
C30_Witness ==
    /\ gpc = "done"
    /\ Len(directory) = MaxVoices
    /\ \E k \in Range(groups.keys) :
          groups.members[k] = [i \in DOMAIN directory |->
                                  <<directory[i].voice_id, directory[i].name>>]

====
